---- MODULE Spec2Model ----
(***************************************************************************)
(* Model of the price-checker extension's background service worker        *)
(* (src/front-end/src/background.ts) together with the storage and         *)
(* currency utilities it calls.                                            *)
(*                                                                         *)
(* Conventions                                                             *)
(*  - A JavaScript string is a sequence of one-character strings; the      *)
(*    empty sequence stands for both "" and undefined (both are falsy).    *)
(*  - A nullable object is a sequence of length 0 (null) or 1.             *)
(*  - Time is Date.now() in milliseconds.                                  *)
(*  - Money is fixed point: price_usd is in cents, a rate is the real      *)
(*    rate times RateScale, so price_usd * rate carries the factor         *)
(*    RateScale.  NoPrice marks an absent price_converted.                 *)
(***************************************************************************)
EXTENDS Integers, Sequences, FiniteSets, TLC

VARIABLES
    now,          \* Date.now()
    events,       \* number of external events so far (bounds the run)
    nextSweep,    \* due time of the next setInterval callback
    cache,        \* background.ts: const cache = new Map<string, CachedResult>()
    pref,         \* chrome.storage.local[CURRENCY_PREFERENCE_KEY]
    pendingClear, \* clearCache messages sent and not yet handled
    pendingSend,  \* setCurrencyPreference calls past their write, clearCache not yet sent
    cachedRates,  \* currency.ts: let cachedRates: ExchangeRateCache | null
    req,          \* one record per comparePrice message: the handler's locals
    lastResponse, \* the latest sendResponse call: request and argument
    cleared,      \* the sweep callback's counter, as of its latest run
    clearedKeys,  \* history: keys cached when a clearCache was handled, not looked up since
    refilled,     \* history: the keys of clearedKeys stored by cache.set since
    args,         \* inputs of the pure-function specifications
    result,       \* outputs of the pure-function specifications
    trackedProducts, \* chrome.storage.local[STORAGE_KEY]
    calls         \* storage.ts calls in flight: arguments and locals

vars == <<now, events, nextSweep, cache, pref, pendingClear, pendingSend,
          cachedRates, req, lastResponse, cleared, clearedKeys, refilled,
          args, result, trackedProducts, calls>>

(***************************************************************************)
(* Bounds of the model                                                     *)
(***************************************************************************)
\* external events in a run: messages received, clock advances, preference changes
MaxEvents == 4
MaxTitleLen == 3
\* external events in a run checked for liveness
MaxLiveEvents == 3
\* title length of the two-request specification
MaxPairTitleLen == 1
\* length of a price text given to detectCurrency
MaxTextLen == 3
\* length of a price text given to parsePrice
MaxPriceLen == 3
\* parts of a hostname and of a path in the site-detection specification
MaxHostParts == 2
MaxPathParts == 2
\* title selectors of an extractor that may match an element
MaxSelectors == 2
\* characters in the text of a list item
MaxRowLen == 5
\* storage.ts calls in one run, and how many are alive at a time
MaxTrackEvents == 3
MaxCalls == 3
\* characters of a URL after its prefix
MaxUrlTail == 2

(***************************************************************************)
(* Strings                                                                 *)
(***************************************************************************)
Upper == <<"A","B","C","D","E","F","G","H","I","J","K","L","M",
           "N","O","P","Q","R","S","T","U","V","W","X","Y","Z">>
Lower == <<"a","b","c","d","e","f","g","h","i","j","k","l","m",
           "n","o","p","q","r","s","t","u","v","w","x","y","z">>

LowerChar(c) ==
    IF \E i \in 1..Len(Upper) : Upper[i] = c
    THEN Lower[CHOOSE i \in 1..Len(Upper) : Upper[i] = c]
    ELSE c

\* String.prototype.toLowerCase
toLowerCase(s) == [i \in 1..Len(s) |-> LowerChar(s[i])]

\* Boolean(x) for a string or undefined
Truthy(s) == s # <<>>

\* Array.prototype.filter(Boolean)
FilterBoolean(parts) == SelectSeq(parts, Truthy)

\* Array.prototype.join
RECURSIVE Join(_, _)
Join(parts, sep) ==
    IF parts = <<>> THEN <<>>
    ELSE IF Len(parts) = 1 THEN parts[1]
    ELSE parts[1] \o sep \o Join(Tail(parts), sep)

\* whitespace, as matched by \s and removed by String.prototype.trim
IsSpace(c) == c = " "

RECURSIVE CollapseSpaces(_)
CollapseSpaces(s) ==
    IF Len(s) <= 1 THEN s
    ELSE IF IsSpace(s[1]) /\ IsSpace(s[2]) THEN CollapseSpaces(Tail(s))
    ELSE <<s[1]>> \o CollapseSpaces(Tail(s))

RECURSIVE TrimLeft(_)
TrimLeft(s) == IF s # <<>> /\ IsSpace(s[1]) THEN TrimLeft(Tail(s)) ELSE s

RECURSIVE TrimRight(_)
TrimRight(s) ==
    IF s # <<>> /\ IsSpace(s[Len(s)]) THEN TrimRight(SubSeq(s, 1, Len(s) - 1)) ELSE s

\* String.prototype.trim
Trim(s) == TrimRight(TrimLeft(s))

\* s.replace(/[...]/g, ""): the characters of a class removed
RECURSIVE RemoveChars(_, _)
RemoveChars(s, class) ==
    IF s = <<>> THEN <<>>
    ELSE IF s[1] \in class THEN RemoveChars(Tail(s), class)
    ELSE <<s[1]>> \o RemoveChars(Tail(s), class)

(***************************************************************************)
(* Currencies                                                              *)
(***************************************************************************)
USD == <<"U","S","D">>
EUR == <<"E","U","R">>
GBP == <<"G","B","P">>
NGN == <<"N","G","N">>
INR == <<"I","N","R">>
CAD == <<"C","A","D">>
AUD == <<"A","U","D">>
JPY == <<"J","P","Y">>

CURRENCIES == {USD, EUR, GBP, NGN, INR, CAD, AUD, JPY}

RateScale == 100
NoPrice == -1

FALLBACK_RATES ==
    (USD :> 100) @@ (EUR :> 92) @@ (GBP :> 79) @@ (NGN :> 150000) @@
    (INR :> 8300) @@ (CAD :> 136) @@ (AUD :> 152) @@ (JPY :> 14900)

\* a table the exchange-rate service may answer with
LiveRates ==
    (USD :> 100) @@ (EUR :> 90) @@ (GBP :> 80) @@ (NGN :> 160000) @@
    (INR :> 8400) @@ (CAD :> 140) @@ (AUD :> 150) @@ (JPY :> 15000)

LiveTables == {LiveRates}

\* rates[c] || 1
RateOrOne(rates, c) ==
    IF c \in DOMAIN rates /\ rates[c] # 0 THEN rates[c] ELSE RateScale

convertFromUSDSync(usdAmount, targetCurrency, rates) ==
    usdAmount * RateOrOne(rates, targetCurrency)

(***************************************************************************)
(* Durations                                                               *)
(***************************************************************************)
CACHE_DURATION == 5 * 60 * 1000
SWEEP_INTERVAL == 30 * 60 * 1000
RATES_CACHE_DURATION == 60 * 60 * 1000

TickSteps == {CACHE_DURATION, SWEEP_INTERVAL - CACHE_DURATION}

(***************************************************************************)
(* Data                                                                    *)
(***************************************************************************)
\* ProductIdentifiers, restricted to the fields generateCacheKey reads
Ids(asin, upc, ean, ebay) ==
    [asin |-> asin, upc |-> upc, ean |-> ean, ebay_item_id |-> ebay]

NoIds == Ids(<<>>, <<>>, <<>>, <<>>)

\* ProductMatchRequest as sent by the popup (no target_currency yet)
Product(title, ids) == [title |-> title, identifiers |-> ids]

NoProduct == Product(<<>>, NoIds)

Products ==
    { Product(<<"T","v">>, Ids(<<"B","1">>, <<>>, <<>>, <<>>)),
      Product(<<"P","c">>, NoIds) }

\* SitePrice
SitePrice(site, price, currency, usd, converted, target) ==
    [site |-> site, price |-> price, currency |-> currency, price_usd |-> usd,
     price_converted |-> converted, target_currency |-> target]

AmazonPrice == SitePrice("amazon", 1000, USD, 1000, NoPrice, <<>>)
JumiaPrice == SitePrice("jumia", 1350000, NGN, 900, NoPrice, <<>>)

\* PriceComparisonResult
Comparison(all, best) == [all_prices |-> all, best_deal |-> best]

\* bodies the comparison service may answer with
ApiResults ==
    { Comparison(<<AmazonPrice, JumiaPrice>>, <<JumiaPrice>>),
      Comparison(<<>>, <<>>) }

\* what fetch(`${API_BASE_URL}/compare`) can do: reject, answer non-OK, answer a body
ApiFailures == {"network", "status"}

\* the argument of sendResponse
Success(data, cached) ==
    [success |-> TRUE, data |-> <<data>>, cached |-> cached, error |-> ""]

Failure(error) ==
    [success |-> FALSE, data |-> <<>>, cached |-> FALSE, error |-> error]

(***************************************************************************)
(* background.ts: generateCacheKey                                         *)
(***************************************************************************)
\* mutant of generateCacheKey: the currency is left out of the key
generateCacheKeyNoCurrency(productData) ==
    toLowerCase(
        Join(FilterBoolean(<<productData.title,
                             productData.identifiers.asin,
                             productData.identifiers.upc,
                             productData.identifiers.ean,
                             productData.identifiers.ebay_item_id>>),
             <<"|">>))

generateCacheKey(productData) ==
    toLowerCase(
        Join(FilterBoolean(<<productData.title,
                             productData.identifiers.asin,
                             productData.identifiers.upc,
                             productData.identifiers.ean,
                             productData.identifiers.ebay_item_id,
                             IF Truthy(productData.target_currency)
                             THEN productData.target_currency ELSE USD>>),
             <<"|">>))

\* const requestData = { ...productData, target_currency: targetCurrency }
RequestData(productData, targetCurrency) ==
    [title |-> productData.title, identifiers |-> productData.identifiers,
     target_currency |-> targetCurrency]

(***************************************************************************)
(* background.ts: applyUserCurrencyConversion, given the rates that        *)
(* getExchangeRates resolved to                                            *)
(***************************************************************************)
ConvertPrice(price, targetCurrency, rates) ==
    [price EXCEPT
        !.price_converted = convertFromUSDSync(price.price_usd, targetCurrency, rates),
        !.target_currency = targetCurrency]

\* mutant of applyUserCurrencyConversion: the converted result loses its best deal
applyUserCurrencyConversionNoBest(data, targetCurrency, rates) ==
    IF targetCurrency = USD
    THEN data
    ELSE Comparison(
            [i \in 1..Len(data.all_prices) |->
                ConvertPrice(data.all_prices[i], targetCurrency, rates)],
            <<>>)

applyUserCurrencyConversion(data, targetCurrency, rates) ==
    IF targetCurrency = USD
    THEN data
    ELSE Comparison(
            [i \in 1..Len(data.all_prices) |->
                ConvertPrice(data.all_prices[i], targetCurrency, rates)],
            IF data.best_deal # <<>>
            THEN <<ConvertPrice(data.best_deal[1], targetCurrency, rates)>>
            ELSE <<>>)

(***************************************************************************)
(* storage.ts: getCurrencyPreference                                       *)
(***************************************************************************)
getCurrencyPreference(storageOk) ==
    IF storageOk /\ Truthy(pref) THEN pref ELSE USD

(***************************************************************************)
(* The cache                                                               *)
(***************************************************************************)
EmptyCache == [k \in {} |-> 0]

\* mutants of IsFresh: the comparison flipped; the boundary included
IsFreshFlipped(entry) == now - entry.timestamp > CACHE_DURATION

IsFreshInclusive(entry) == now - entry.timestamp <= CACHE_DURATION

\* Date.now() - cached.timestamp < CACHE_DURATION
IsFresh(entry) == now - entry.timestamp < CACHE_DURATION

\* cached && Date.now() - cached.timestamp < CACHE_DURATION
CacheHit(key) == key \in DOMAIN cache /\ IsFresh(cache[key])

\* mutant of SweepExpired: the boundary included
SweepExpiredInclusive(entry) == now - entry.timestamp >= CACHE_DURATION

\* now - value.timestamp > CACHE_DURATION
SweepExpired(entry) == now - entry.timestamp > CACHE_DURATION

\* mutant of CacheSet: an entry already there is kept
CacheSetIfAbsent(key, data) ==
    [k \in DOMAIN cache \cup {key} |->
        IF k \in DOMAIN cache THEN cache[k] ELSE [data |-> data, timestamp |-> now]]

\* cache.set(key, { data, timestamp: Date.now() })
CacheSet(key, data) ==
    [k \in DOMAIN cache \cup {key} |->
        IF k = key THEN [data |-> data, timestamp |-> now] ELSE cache[k]]

\* mutant of CacheClear: only the expired entries go
CacheClearExpiredOnly ==
    [k \in {j \in DOMAIN cache : now - cache[j].timestamp < CACHE_DURATION} |-> cache[k]]

\* cache.clear()
CacheClear == EmptyCache

(***************************************************************************)
(* currency.ts: the rate snapshot                                          *)
(***************************************************************************)
\* mutant of RatesFresh: the boundary included
RatesFreshInclusive ==
    cachedRates # <<>> /\ now - cachedRates[1].timestamp <= RATES_CACHE_DURATION

RatesFresh ==
    cachedRates # <<>> /\ now - cachedRates[1].timestamp < RATES_CACHE_DURATION

(***************************************************************************)
(* Initial state                                                           *)
(***************************************************************************)
Reqs == 1..MaxEvents

IdleReq ==
    [pc |-> "idle", productData |-> NoProduct, targetCurrency |-> <<>>,
     cacheKey |-> <<>>, cached |-> <<>>, data |-> <<>>, apiCalls |-> 0,
     responses |-> 0]

\* what chrome.storage may hold when the service worker starts
InitialPrefs == {<<>>}

PrefChoices == {USD, EUR}

Init ==
    /\ now = 0
    /\ events = 0
    /\ nextSweep = SWEEP_INTERVAL
    /\ cache = EmptyCache
    /\ pref \in InitialPrefs
    /\ pendingClear = 0
    /\ pendingSend = 0
    /\ cachedRates = <<>>
    /\ req = [r \in Reqs |-> IdleReq]
    /\ lastResponse = <<>>
    /\ cleared = 0
    /\ clearedKeys = {}
    /\ refilled = {}
    /\ args = <<>>
    /\ result = <<>>
    /\ trackedProducts = <<>>
    /\ calls = <<>>

(***************************************************************************)
(* Actions                                                                 *)
(***************************************************************************)
\* time passes
Tick(d) ==
    /\ events < MaxEvents
    /\ now' = now + d
    /\ events' = events + 1
    /\ UNCHANGED <<nextSweep, cache, pref, pendingClear, pendingSend, cachedRates,
                   req, clearedKeys, refilled, args, result, lastResponse, cleared,
                   trackedProducts, calls>>

\* sendResponse(response), after which the handler returns and its locals are gone
Respond(r, response) ==
    /\ req' = [req EXCEPT ![r] = [IdleReq EXCEPT !.pc = "done",
                                                 !.apiCalls = req[r].apiCalls,
                                                 !.responses = req[r].responses + 1]]
    /\ lastResponse' = <<[id |-> r, response |-> response]>>

\* const cached = cache.get(cacheKey)
CacheGet(key) == IF key \in DOMAIN cache THEN <<cache[key]>> ELSE <<>>

\* mutant of CallApi: a request joins a fetch already in flight for its key
CallApiCoalesced(r, p, targetCurrency, cacheKey) ==
    /\ req' = [req EXCEPT
                  ![r].pc = "fetch",
                  ![r].productData = p,
                  ![r].targetCurrency = targetCurrency,
                  ![r].cacheKey = cacheKey,
                  ![r].cached = CacheGet(cacheKey),
                  ![r].apiCalls =
                      IF \E q \in Reqs : /\ req[q].pc \in {"fetch", "rates"}
                                         /\ req[q].cacheKey = cacheKey
                      THEN @ ELSE @ + 1]
    /\ UNCHANGED lastResponse

\* the miss path up to `await fetch(...)`: one POST to the comparison service
CallApi(r, p, targetCurrency, cacheKey) ==
    /\ req' = [req EXCEPT
                  ![r].pc = "fetch",
                  ![r].productData = p,
                  ![r].targetCurrency = targetCurrency,
                  ![r].cacheKey = cacheKey,
                  ![r].cached = CacheGet(cacheKey),
                  ![r].apiCalls = @ + 1]
    /\ UNCHANGED lastResponse

\* onMessage, action "comparePrice": handleComparePriceRequest up to
\* `await getCurrencyPreference()`.  chrome.storage.local.get reads the
\* stored value (or rejects, which getCurrencyPreference turns into USD); the
\* handler is suspended until the promise resolves, and other messages are
\* handled in between.
Receive(r, p, storageOk) ==
    /\ events < MaxEvents
    /\ events' = events + 1
    /\ req[r].pc = "idle"
    /\ \A q \in Reqs : q < r => req[q].pc # "idle"
    /\ req' = [req EXCEPT ![r].pc = "pref",
                          ![r].productData = p,
                          ![r].targetCurrency = getCurrencyPreference(storageOk)]
    /\ UNCHANGED <<now, nextSweep, cache, pref, pendingClear, pendingSend,
                   cachedRates, cleared, clearedKeys, refilled, args, result,
                   lastResponse, trackedProducts, calls>>

\* the handler resumes with the preference it read: it builds requestData,
\* computes the key, looks the cache up and either answers from it or issues
\* the fetch
LookUp(r) ==
    /\ req[r].pc = "pref"
    /\ LET p == req[r].productData
           targetCurrency == req[r].targetCurrency
           cacheKey == generateCacheKey(RequestData(p, targetCurrency))
       IN  /\ IF CacheHit(cacheKey)
              THEN Respond(r, Success(cache[cacheKey].data, TRUE))
              ELSE CallApi(r, p, targetCurrency, cacheKey)
           /\ clearedKeys' = clearedKeys \ {cacheKey}
           /\ refilled' = refilled \ {cacheKey}
    /\ UNCHANGED <<now, events, nextSweep, cache, pref, pendingClear, pendingSend,
                   cachedRates, cleared, args, result,
                   trackedProducts, calls>>

\* mutant of Complete: the prices are converted to the preference stored now
CompleteForStoredPreference(r, data, rates) ==
    LET convertedData == applyUserCurrencyConversion(data, getCurrencyPreference(TRUE), rates)
    IN  /\ cache' = CacheSet(req[r].cacheKey, convertedData)
        /\ Respond(r, Success(convertedData, FALSE))
        /\ refilled' = refilled \cup ({req[r].cacheKey} \cap clearedKeys)

\* the tail of the try block: cache.set, then sendResponse
Complete(r, data, rates) ==
    LET convertedData == applyUserCurrencyConversion(data, req[r].targetCurrency, rates)
    IN  /\ cache' = CacheSet(req[r].cacheKey, convertedData)
        /\ Respond(r, Success(convertedData, FALSE))
        /\ refilled' = refilled \cup ({req[r].cacheKey} \cap clearedKeys)

\* mutants of Fail: the failed key is evicted; the error is swallowed
FailEvicts(r, error) ==
    /\ Respond(r, Failure(error))
    /\ cache' = [k \in DOMAIN cache \ {req[r].cacheKey} |-> cache[k]]
    /\ UNCHANGED refilled

FailSilently(r, error) ==
    /\ req' = [req EXCEPT ![r] = [IdleReq EXCEPT !.pc = "done",
                                                 !.apiCalls = req[r].apiCalls]]
    /\ UNCHANGED <<cache, refilled, lastResponse>>

\* the catch block
Fail(r, error) ==
    /\ Respond(r, Failure(error))
    /\ UNCHANGED <<cache, refilled>>

\* fetch rejects or answers non-OK
FetchFails(r, error) ==
    /\ req[r].pc = "fetch"
    /\ Fail(r, error)
    /\ UNCHANGED <<now, events, nextSweep, pref, pendingClear, pendingSend,
                   cachedRates, clearedKeys, args, result, cleared,
                   trackedProducts, calls>>

\* fetch and response.json() resolve with a body; USD needs no rates, another
\* currency uses the snapshot when it is fresh and fetches the rates otherwise
FetchSucceeds(r, data) ==
    /\ req[r].pc = "fetch"
    /\ IF req[r].targetCurrency = USD
       THEN Complete(r, data, FALLBACK_RATES)
       ELSE IF RatesFresh
       THEN Complete(r, data, cachedRates[1].rates)
       ELSE /\ req' = [req EXCEPT ![r].pc = "rates", ![r].data = <<data>>]
            /\ UNCHANGED <<cache, refilled, lastResponse>>
    /\ UNCHANGED <<now, events, nextSweep, pref, pendingClear, pendingSend,
                   cachedRates, clearedKeys, args, result, cleared,
                   trackedProducts, calls>>

\* the rate fetch resolves with a table: the snapshot is replaced
RatesSucceed(r, table) ==
    /\ req[r].pc = "rates"
    /\ cachedRates' = <<[rates |-> table, timestamp |-> now]>>
    /\ Complete(r, req[r].data[1], table)
    /\ UNCHANGED <<now, events, nextSweep, pref, pendingClear, pendingSend,
                   clearedKeys, args, result, cleared,
                   trackedProducts, calls>>

\* mutant of RatesFail: the failure reaches the handler's catch block
RatesFailRejects(r) ==
    /\ req[r].pc = "rates"
    /\ Fail(r, "rates")
    /\ UNCHANGED <<now, events, nextSweep, pref, pendingClear, pendingSend,
                   cachedRates, clearedKeys, args, result, cleared,
                   trackedProducts, calls>>

\* mutant of RatesFail: the fallback table is stored as the snapshot
RatesFailStoresFallback(r) ==
    /\ req[r].pc = "rates"
    /\ cachedRates' = <<[rates |-> FALLBACK_RATES, timestamp |-> now]>>
    /\ Complete(r, req[r].data[1], FALLBACK_RATES)
    /\ UNCHANGED <<now, events, nextSweep, pref, pendingClear, pendingSend,
                   clearedKeys, args, result, cleared,
                   trackedProducts, calls>>

\* the rate fetch fails: the fallback table is used
RatesFail(r) ==
    /\ req[r].pc = "rates"
    /\ Complete(r, req[r].data[1], FALLBACK_RATES)
    /\ UNCHANGED <<now, events, nextSweep, pref, pendingClear, pendingSend,
                   cachedRates, clearedKeys, args, result, cleared,
                   trackedProducts, calls>>

\* storage.ts: setCurrencyPreference up to the point where the write of
\* `await chrome.storage.local.set(...)` has taken effect; the function is
\* suspended until the promise resolves
SetPreference(c) ==
    /\ events < MaxEvents
    /\ pref' = c
    /\ events' = events + 1
    /\ pendingSend' = pendingSend + 1
    /\ UNCHANGED <<now, nextSweep, cache, pendingClear, cachedRates, req, clearedKeys,
                   refilled, args, result, lastResponse, cleared,
                   trackedProducts, calls>>

\* the write rejects: the catch block logs and rethrows, nothing is stored
\* and no message is sent
SetPreferenceFails ==
    /\ events < MaxEvents
    /\ events' = events + 1
    /\ UNCHANGED <<now, nextSweep, cache, pref, pendingClear, pendingSend,
                   cachedRates, req, clearedKeys,
                   refilled, args, result, lastResponse, cleared,
                   trackedProducts, calls>>

\* setCurrencyPreference resumes after the write:
\* chrome.runtime.sendMessage({ action: "clearCache" })
SendClearCache ==
    /\ pendingSend > 0
    /\ pendingSend' = pendingSend - 1
    /\ pendingClear' = pendingClear + 1
    /\ UNCHANGED <<now, events, nextSweep, cache, pref, cachedRates, req,
                   clearedKeys, refilled, args, result, lastResponse, cleared,
                   trackedProducts, calls>>

\* onMessage, action "clearCache"
ClearCache ==
    /\ pendingClear > 0
    /\ pendingClear' = pendingClear - 1
    /\ cache' = CacheClear
    /\ clearedKeys' = clearedKeys \cup DOMAIN cache
    /\ refilled' = {}
    /\ UNCHANGED <<now, events, nextSweep, pref, pendingSend, cachedRates, req,
                   args, result, lastResponse, cleared,
                   trackedProducts, calls>>

\* the setInterval callback
SweepResult == [k \in {j \in DOMAIN cache : ~SweepExpired(cache[j])} |-> cache[k]]

Sweep ==
    /\ now >= nextSweep
    /\ nextSweep' = nextSweep + SWEEP_INTERVAL
    /\ cache' = SweepResult
    /\ cleared' = Cardinality({k \in DOMAIN cache : SweepExpired(cache[k])})
    /\ UNCHANGED <<now, events, pref, pendingClear, pendingSend, cachedRates, req,
                   clearedKeys, refilled, args, result, lastResponse,
                   trackedProducts, calls>>

Next ==
    \/ \E d \in TickSteps : Tick(d)
    \/ \E r \in Reqs, p \in Products, storageOk \in BOOLEAN : Receive(r, p, storageOk)
    \/ \E r \in Reqs : LookUp(r)
    \/ \E r \in Reqs, e \in ApiFailures : FetchFails(r, e)
    \/ \E r \in Reqs, d \in ApiResults : FetchSucceeds(r, d)
    \/ \E r \in Reqs, t \in LiveTables : RatesSucceed(r, t)
    \/ \E r \in Reqs : RatesFail(r)
    \/ \E c \in PrefChoices : SetPreference(c)
    \/ SetPreferenceFails
    \/ SendClearCache
    \/ ClearCache
    \/ Sweep

Spec == Init /\ [][Next]_vars


(***************************************************************************)
(* Fairness: an awaited storage read or fetch eventually resolves or        *)
(* rejects                                                                 *)
(***************************************************************************)
\* LookUp(r) is enabled exactly while request r waits for its preference and
\* is the only step that ends the wait, so weak fairness of LookUp(r) is the
\* formula below
PreferenceSettles(r) == []<>(req[r].pc # "pref")

FetchSettles(r) ==
    \/ \E e \in ApiFailures : FetchFails(r, e)
    \/ \E d \in ApiResults : FetchSucceeds(r, d)

RatesSettle(r) ==
    \/ \E t \in LiveTables : RatesSucceed(r, t)
    \/ RatesFail(r)

\* the runs checked for liveness take at most MaxLiveEvents external events
LiveNext ==
    \/ events < MaxLiveEvents /\ \E d \in TickSteps : Tick(d)
    \/ events < MaxLiveEvents /\
         \E r \in Reqs, p \in Products, storageOk \in BOOLEAN : Receive(r, p, storageOk)
    \/ \E r \in Reqs : LookUp(r)
    \/ \E r \in Reqs, e \in ApiFailures : FetchFails(r, e)
    \/ \E r \in Reqs, d \in ApiResults : FetchSucceeds(r, d)
    \/ \E r \in Reqs, t \in LiveTables : RatesSucceed(r, t)
    \/ \E r \in Reqs : RatesFail(r)
    \/ events < MaxLiveEvents /\ \E c \in PrefChoices : SetPreference(c)
    \/ events < MaxLiveEvents /\ SetPreferenceFails
    \/ SendClearCache
    \/ ClearCache
    \/ Sweep

LiveSpec ==
    /\ Init
    /\ [][LiveNext]_vars
    /\ \A r \in Reqs :
          PreferenceSettles(r) /\ WF_vars(FetchSettles(r)) /\ WF_vars(RatesSettle(r))

(***************************************************************************)
(* Specification of generateCacheKey as a pure function of two requests    *)
(***************************************************************************)
TitleAlphabet == {"A", "a", " "}

KeyTitles == UNION {[1..n -> TitleAlphabet] : n \in 1..MaxTitleLen}

KeyIds == {NoIds, Ids(<<"B","1">>, <<>>, <<>>, <<>>), Ids(<<>>, <<"B","1">>, <<>>, <<>>)}

KeyCurrencies == {USD, EUR}

KeyInputs ==
    {RequestData(Product(t, i), c) : t \in KeyTitles, i \in KeyIds, c \in KeyCurrencies}

InitKey ==
    /\ now = 0
    /\ events = 0
    /\ nextSweep = SWEEP_INTERVAL
    /\ cache = EmptyCache
    /\ pref = <<>>
    /\ pendingClear = 0
    /\ pendingSend = 0
    /\ cachedRates = <<>>
    /\ req = [r \in Reqs |-> IdleReq]
    /\ lastResponse = <<>>
    /\ cleared = 0
    /\ clearedKeys = {}
    /\ refilled = {}
    /\ args \in KeyInputs \X KeyInputs
    /\ result = <<>>
    /\ trackedProducts = <<>>
    /\ calls = <<>>

ComputeKeys ==
    /\ result = <<>>
    /\ result' = <<generateCacheKey(args[1]), generateCacheKey(args[2])>>
    /\ UNCHANGED <<now, events, nextSweep, cache, pref, pendingClear, pendingSend, cachedRates,
                   req, lastResponse, cleared, clearedKeys, refilled, args,
                   trackedProducts, calls>>

NextKey == ComputeKeys

SpecKey == InitKey /\ [][NextKey]_vars

(***************************************************************************)
(* Two comparePrice requests resolved under two currency preferences: the  *)
(* first reads the stored preference, the preference is then written, and  *)
(* the second reads it while the clearCache message of the change is not   *)
(* yet sent or still on its way.  args = <<product 1, currency 1,          *)
(* product 2, currency 2>>.                                                *)
(***************************************************************************)
PairAlphabet == {"a", "|"}

PairTitles ==
    UNION {[1..n -> PairAlphabet] : n \in 0..MaxPairTitleLen}
        \cup {USD, toLowerCase(EUR)}

PairProducts == {Product(t, i) : t \in PairTitles, i \in KeyIds}

PairCurrencies == {USD, EUR, JPY}

InitPair ==
    /\ now = 0
    /\ events = 0
    /\ nextSweep = SWEEP_INTERVAL
    /\ cache = EmptyCache
    /\ args \in PairProducts \X PairCurrencies \X PairProducts \X PairCurrencies
    /\ pref = args[2]
    /\ pendingClear = 0
    /\ pendingSend = 0
    /\ cachedRates = <<>>
    /\ req = [r \in Reqs |-> IdleReq]
    /\ lastResponse = <<>>
    /\ cleared = 0
    /\ clearedKeys = {}
    /\ refilled = {}
    /\ result = <<>>
    /\ trackedProducts = <<>>
    /\ calls = <<>>

FirstRequest == Receive(1, args[1], TRUE)

ChangePreference ==
    /\ req[1].pc # "idle"
    /\ pendingSend = 0
    /\ pendingClear = 0
    /\ SetPreference(args[4])

SecondRequest ==
    /\ pendingSend + pendingClear = 1
    /\ Receive(2, args[3], TRUE)

NextPair ==
    \/ FirstRequest
    \/ ChangePreference
    \/ SendClearCache
    \/ SecondRequest
    \/ \E r \in Reqs : LookUp(r)
    \/ \E r \in Reqs, d \in ApiResults : FetchSucceeds(r, d)
    \/ \E r \in Reqs, t \in LiveTables : RatesSucceed(r, t)
    \/ \E r \in Reqs : RatesFail(r)

SpecPair == InitPair /\ [][NextPair]_vars

(***************************************************************************)
(* The rate snapshot over hours: the stored preference is EUR, so every    *)
(* miss needs the rates, and the clock moves in half hours.                *)
(***************************************************************************)
HalfHour == RATES_CACHE_DURATION \div 2

\* a table the exchange-rate service answers with on a later day
LaterRates == (USD :> 100) @@ (EUR :> 95)

RefreshTables == LiveTables \cup {LaterRates}

RateProducts == {p \in Products : p.identifiers = NoIds}

InitRates ==
    /\ now = 0
    /\ events = 0
    /\ nextSweep = SWEEP_INTERVAL
    /\ cache = EmptyCache
    /\ pref = EUR
    /\ pendingClear = 0
    /\ pendingSend = 0
    /\ cachedRates = <<>>
    /\ req = [r \in Reqs |-> IdleReq]
    /\ lastResponse = <<>>
    /\ cleared = 0
    /\ clearedKeys = {}
    /\ refilled = {}
    /\ args = <<>>
    /\ result = <<>>
    /\ trackedProducts = <<>>
    /\ calls = <<>>

NextRates ==
    \/ Tick(HalfHour)
    \/ \E r \in Reqs, p \in RateProducts : Receive(r, p, TRUE)
    \/ \E r \in Reqs : LookUp(r)
    \/ \E r \in Reqs, d \in ApiResults : FetchSucceeds(r, d)
    \/ \E r \in Reqs, t \in RefreshTables : RatesSucceed(r, t)
    \/ \E r \in Reqs : RatesFail(r)

SpecRates == InitRates /\ [][NextRates]_vars

(***************************************************************************)
(* currency.ts: convertCurrency, convertCurrencySync, normalizeToUSD and   *)
(* convertFromUSD.  An amount is a fraction <<numerator, denominator>>; a  *)
(* conversion returns the exact quotient the floating-point code           *)
(* approximates.  args = [amount, from, to, snapshot]; normalizeToUSD is   *)
(* called with (amount, from) and convertFromUSD with (amount, to).        *)
(***************************************************************************)
\* (amount / fromRate) * toRate, after the identity test
ConvertVia(amount, fromCurrency, toCurrency, rates) ==
    <<amount[1] * RateOrOne(rates, toCurrency),
      amount[2] * RateOrOne(rates, fromCurrency)>>

\* mutant of convertCurrencySync: no test for identical currencies
convertCurrencySyncDetour(amount, fromCurrency, toCurrency, rates) ==
    ConvertVia(amount, fromCurrency, toCurrency, rates)

convertCurrencySync(amount, fromCurrency, toCurrency, rates) ==
    IF fromCurrency = toCurrency
    THEN amount
    ELSE ConvertVia(amount, fromCurrency, toCurrency, rates)

UnknownCurrency == <<"X","X","X">>

ConvertCurrencies == CURRENCIES \cup {UnknownCurrency}

ConvertAmounts == {<<0, 1>>, <<1, 10>>, <<100, 1>>}

EmptyRates == [c \in {} |-> 0]

ConvertTables == {FALLBACK_RATES, LiveRates, LaterRates, EmptyRates}

\* no snapshot, a fresh one, one exactly an hour old
ConvertSnapshots ==
    {<<>>,
     <<[rates |-> LiveRates, timestamp |-> HalfHour]>>,
     <<[rates |-> LiveRates, timestamp |-> 0]>>}

InitConvert ==
    /\ now = RATES_CACHE_DURATION
    /\ events = 0
    /\ nextSweep = SWEEP_INTERVAL
    /\ cache = EmptyCache
    /\ pref = <<>>
    /\ pendingClear = 0
    /\ pendingSend = 0
    /\ args \in [amount : ConvertAmounts, from : ConvertCurrencies,
                  to : ConvertCurrencies, snapshot : ConvertSnapshots]
    /\ cachedRates = args.snapshot
    /\ req = [r \in Reqs |-> IdleReq]
    /\ lastResponse = <<>>
    /\ cleared = 0
    /\ clearedKeys = {}
    /\ refilled = {}
    /\ result = [pc |-> "idle", fn |-> "", value |-> <<>>, fetches |-> 0]
    /\ trackedProducts = <<>>
    /\ calls = <<>>

ConvertFrame ==
    UNCHANGED <<now, events, nextSweep, cache, pref, pendingClear, pendingSend, req,
                lastResponse, cleared, clearedKeys, refilled, args,
                   trackedProducts, calls>>

ConvertResult(fn, value, fetches) ==
    [pc |-> "done", fn |-> fn, value |-> value, fetches |-> fetches]

\* a call of convertCurrencySync with some table
ConvertSync(rates) ==
    /\ result.pc = "idle"
    /\ result' = ConvertResult("convertCurrencySync",
                    convertCurrencySync(args.amount, args.from, args.to, rates), 0)
    /\ UNCHANGED cachedRates
    /\ ConvertFrame

\* amount / (rates[currency] || 1)
NormalizeVia(amount, currency, rates) ==
    <<amount[1] * RateScale, amount[2] * RateOrOne(rates, currency)>>

\* usdAmount * (rates[targetCurrency] || 1)
FromUSDVia(usdAmount, targetCurrency, rates) ==
    <<usdAmount[1] * RateOrOne(rates, targetCurrency), usdAmount[2] * RateScale>>

\* what function fn returns once getExchangeRates has resolved to rates
ConvertWith(fn, rates) ==
    CASE fn = "convertCurrency" -> ConvertVia(args.amount, args.from, args.to, rates)
      [] fn = "normalizeToUSD" -> NormalizeVia(args.amount, args.from, rates)
      [] fn = "convertFromUSD" -> FromUSDVia(args.amount, args.to, rates)

\* `const rates = await getExchangeRates()` in function fn: a fresh snapshot
\* is used as it is, otherwise the rate service is asked
AwaitExchangeRates(fn) ==
    IF RatesFresh
    THEN result' = ConvertResult(fn, ConvertWith(fn, cachedRates[1].rates), 0)
    ELSE result' = [pc |-> "rates", fn |-> fn, value |-> <<>>, fetches |-> 1]

\* a call of convertCurrency, up to its await of getExchangeRates
convertCurrency ==
    /\ result.pc = "idle"
    /\ IF args.from = args.to
       THEN result' = ConvertResult("convertCurrency", args.amount, 0)
       ELSE AwaitExchangeRates("convertCurrency")
    /\ UNCHANGED cachedRates
    /\ ConvertFrame

\* a call of normalizeToUSD(amount, currency), up to its await
normalizeToUSD ==
    /\ result.pc = "idle"
    /\ AwaitExchangeRates("normalizeToUSD")
    /\ UNCHANGED cachedRates
    /\ ConvertFrame

\* a call of convertFromUSD(usdAmount, targetCurrency), up to its await
convertFromUSD ==
    /\ result.pc = "idle"
    /\ AwaitExchangeRates("convertFromUSD")
    /\ UNCHANGED cachedRates
    /\ ConvertFrame

\* the rate fetch resolves with a table: the snapshot is replaced
ConvertRatesSucceed(rates) ==
    /\ result.pc = "rates"
    /\ cachedRates' = <<[rates |-> rates, timestamp |-> now]>>
    /\ result' = ConvertResult(result.fn, ConvertWith(result.fn, rates), result.fetches)
    /\ ConvertFrame

\* the rate fetch fails: the fallback table is used, the snapshot stays
ConvertRatesFail ==
    /\ result.pc = "rates"
    /\ result' = ConvertResult(result.fn, ConvertWith(result.fn, FALLBACK_RATES),
                               result.fetches)
    /\ UNCHANGED cachedRates
    /\ ConvertFrame

NextConvert ==
    \/ \E t \in ConvertTables : ConvertSync(t)
    \/ convertCurrency
    \/ normalizeToUSD
    \/ convertFromUSD
    \/ \E t \in RefreshTables : ConvertRatesSucceed(t)
    \/ ConvertRatesFail

SpecConvert == InitConvert /\ [][NextConvert]_vars

(***************************************************************************)
(* extractors/utils.ts: detectCurrency.  The non-ASCII currency signs are  *)
(* written as one-character stand-ins named after their code points.       *)
(* args = [text, hostname, location], location being                       *)
(* window.location.hostname.                                               *)
(***************************************************************************)
PoundSign == "U+00A3"
EuroSign == "U+20AC"
NairaSign == "U+20A6"
RupeeSign == "U+20B9"
YenSign == "U+00A5"

\* String.prototype.includes
Includes(text, sub) ==
    \E i \in 1..(Len(text) - Len(sub) + 1) : SubSeq(text, i, i + Len(sub) - 1) = sub

DetectFromDomain(domain) ==
    IF Includes(domain, <<".","c","o","m">>) THEN USD
    ELSE IF Includes(domain, <<".","c","o",".","u","k">>) THEN GBP
    ELSE IF \/ Includes(domain, <<".","d","e">>)
            \/ Includes(domain, <<".","f","r">>)
            \/ Includes(domain, <<".","e","s">>) THEN EUR
    ELSE IF \/ Includes(domain, <<".","n","g">>)
            \/ Includes(domain, <<"j","u","m","i","a",".","c","o","m",".","n","g">>) THEN NGN
    ELSE IF Includes(domain, <<".","i","n">>) THEN INR
    ELSE IF Includes(domain, <<".","j","p">>) THEN JPY
    ELSE IF Includes(domain, <<".","c","a">>) THEN CAD
    ELSE IF Includes(domain, <<".","a","u">>) THEN AUD
    ELSE USD

detectCurrency(priceText, hostname) ==
    LET text == priceText
        domain == IF Truthy(hostname) THEN hostname ELSE args.location
    IN  IF Includes(text, <<"$">>) THEN USD
        ELSE IF Includes(text, <<PoundSign>>) THEN GBP
        ELSE IF Includes(text, <<EuroSign>>) THEN EUR
        ELSE IF Includes(text, <<NairaSign>>) THEN NGN
        ELSE IF Includes(text, <<RupeeSign>>) THEN INR
        ELSE IF Includes(text, <<YenSign>>) THEN JPY
        ELSE IF Includes(text, <<"C","$">>) \/ Includes(text, CAD) THEN CAD
        ELSE IF Includes(text, <<"A","$">>) \/ Includes(text, AUD) THEN AUD
        ELSE DetectFromDomain(domain)

DetectAlphabet == {"$", "A", "C", "D", "U", "1", PoundSign}

DetectTexts == UNION {[1..n -> DetectAlphabet] : n \in 0..MaxTextLen}

JumiaNigeria == <<"j","u","m","i","a",".","c","o","m",".","n","g">>

DetectHosts ==
    {<<>>, <<"a",".","c","o","m">>, <<"a",".","c","a">>, <<"a",".","c","o","m",".","a","u">>,
     JumiaNigeria, <<"k","o","n","g","a",".","c","o","m">>}

DetectLocations == {<<"j",".","n","g">>}

InitDetect ==
    /\ now = 0
    /\ events = 0
    /\ nextSweep = SWEEP_INTERVAL
    /\ cache = EmptyCache
    /\ pref = <<>>
    /\ pendingClear = 0
    /\ pendingSend = 0
    /\ cachedRates = <<>>
    /\ req = [r \in Reqs |-> IdleReq]
    /\ lastResponse = <<>>
    /\ cleared = 0
    /\ clearedKeys = {}
    /\ refilled = {}
    /\ args \in [text : DetectTexts, hostname : DetectHosts, location : DetectLocations]
    /\ result = <<>>
    /\ trackedProducts = <<>>
    /\ calls = <<>>

Detect ==
    /\ result = <<>>
    /\ result' = <<detectCurrency(args.text, args.hostname)>>
    /\ UNCHANGED <<now, events, nextSweep, cache, pref, pendingClear, pendingSend, cachedRates,
                   req, lastResponse, cleared, clearedKeys, refilled, args,
                   trackedProducts, calls>>

NextDetect == Detect

SpecDetect == InitDetect /\ [][NextDetect]_vars

(***************************************************************************)
(* extractors/utils.ts: parsePrice.  A number is a double.  A finite one   *)
(* is written m / 10^k, the shortest decimal that parses to it (the one    *)
(* Number.prototype.toString shows), with k the least such k >= 0;         *)
(* Infinity and -Infinity are the numbers with k = -1 and m the sign;      *)
(* undefined, like NaN, is the empty sequence.  Naturals too long for an   *)
(* integer are sequences of the numbers 0..9, most significant first,      *)
(* without leading zeros.                                                  *)
(***************************************************************************)
Digits == <<"0","1","2","3","4","5","6","7","8","9">>

IsDigit(c) == \E i \in 1..10 : Digits[i] = c

DigitValue(c) == (CHOOSE i \in 1..10 : Digits[i] = c) - 1

\* the longest prefix of digits
DigitPrefix(s) ==
    SubSeq(s, 1, CHOOSE n \in 0..Len(s) :
                     /\ \A i \in 1..n : IsDigit(s[i])
                     /\ n < Len(s) => ~IsDigit(s[n + 1]))

\* the value of a sequence of digits
RECURSIVE DigitsValue(_)
DigitsValue(ds) ==
    IF ds = <<>> THEN 0
    ELSE DigitsValue(SubSeq(ds, 1, Len(ds) - 1)) * 10 + DigitValue(ds[Len(ds)])

\* the numbers 0..9 the digits of a text stand for
Numerals(ds) == [i \in 1..Len(ds) |-> DigitValue(ds[i])]

\* the integer a sequence of numbers 0..9 writes
RECURSIVE NumeralsValue(_)
NumeralsValue(a) ==
    IF Len(a) = 0 THEN 0
    ELSE NumeralsValue(SubSeq(a, 1, Len(a) - 1)) * 10 + a[Len(a)]

Zeros(n) == [i \in 1..n |-> 0]

AllZero(a) == \A i \in 1..Len(a) : a[i] = 0

\* the number of zeros a starts with
LeadingZeros(a) ==
    CHOOSE n \in 0..Len(a) :
        /\ \A i \in 1..n : a[i] = 0
        /\ n < Len(a) => a[n + 1] # 0

\* the number of zeros a ends with
TrailingZeros(a) ==
    CHOOSE n \in 0..Len(a) :
        /\ \A i \in (Len(a) - n + 1)..Len(a) : a[i] = 0
        /\ n < Len(a) => a[Len(a) - n] # 0

\* leading zeros dropped
SignificantDigits(a) == SubSeq(a, LeadingZeros(a) + 1, Len(a))

IsOdd(a) == Len(a) > 0 /\ a[Len(a)] % 2 = 1

\* a < b
Less(a, b) ==
    \/ Len(a) < Len(b)
    \/ /\ Len(a) = Len(b)
       /\ \E i \in 1..Len(a) : a[i] < b[i] /\ \A j \in 1..(i - 1) : a[j] = b[j]

\* 2 * a: a digit gets a carry when the digit after it is 5 or more
Twice(a) ==
    LET b == <<0>> \o a
    IN  SignificantDigits([i \in 1..Len(b) |->
            (2 * b[i] + IF i < Len(b) /\ b[i + 1] >= 5 THEN 1 ELSE 0) % 10])

\* a \div 2: a digit gets 10 more when the digit before it is odd
Halve(a) ==
    SignificantDigits([i \in 1..Len(a) |->
        (a[i] + IF i > 1 /\ a[i - 1] % 2 = 1 THEN 10 ELSE 0) \div 2])

\* a + 1
RECURSIVE Increment(_)
Increment(a) ==
    IF Len(a) = 0 THEN <<1>>
    ELSE IF a[Len(a)] < 9 THEN SubSeq(a, 1, Len(a) - 1) \o <<a[Len(a)] + 1>>
    ELSE Increment(SubSeq(a, 1, Len(a) - 1)) \o <<0>>

\* a * 2^n, as (a * 2^(n \div 2)) * 2^(n - n \div 2)
RECURSIVE TimesTwoTo(_, _)
TimesTwoTo(a, n) ==
    IF n = 0 THEN a
    ELSE IF n = 1 THEN Twice(a)
    ELSE LET h == TimesTwoTo(a, n \div 2)
         IN  IF Len(h) = 0 THEN h ELSE TimesTwoTo(h, n - n \div 2)

\* a \div 2^n, as (a \div 2^(n \div 2)) \div 2^(n - n \div 2)
RECURSIVE OverTwoTo(_, _)
OverTwoTo(a, n) ==
    IF n = 0 THEN a
    ELSE IF n = 1 THEN Halve(a)
    ELSE LET h == OverTwoTo(a, n \div 2)
         IN  IF Len(h) = 0 THEN h ELSE OverTwoTo(h, n - n \div 2)

RECURSIVE Pow10(_)
Pow10(n) == IF n = 0 THEN 1 ELSE 10 * Pow10(n - 1)

\* the number sign * a / 10^scale, for a without zeros at its end
Decimal(sign, a, scale) ==
    IF scale <= 0 THEN [m |-> sign * NumeralsValue(a) * Pow10(-scale), k |-> 0]
    ELSE [m |-> sign * NumeralsValue(a), k |-> scale]

Infinite(sign) == [m |-> sign, k |-> -1]

InfinityLiteral == <<"I","n","f","i","n","i","t","y">>

\* a double is q * 2^e with q below 2^53 and e from -1074 to 971; above
\* the least 2^52 of them q is 2^52 or more
TwoTo52 == <<4,5,0,3,5,9,9,6,2,7,3,7,0,4,9,6>>

TwoTo53 == Twice(TwoTo52)

MinBinaryExponent == -1074

MaxBinaryExponent == 971

\* every decimal of 10^309 or more is above all doubles, every decimal
\* under 10^-324 is nearer to 0 than to the least double above it
MaxDecimalOrder == 309

MinDecimalOrder == -323

Double0 == [inf |-> FALSE, q |-> <<>>, e |-> 0]

DoubleInfinity == [inf |-> TRUE, q |-> <<>>, e |-> 0]

\* what rounding gave, as a double: q = 2^53 is 2^52 with the next
\* exponent, and past the last exponent the double is Infinity
AsDouble(q, e) ==
    IF Len(q) = 0 THEN Double0
    ELSE IF q = TwoTo53
         THEN IF e + 1 > MaxBinaryExponent THEN DoubleInfinity
              ELSE [inf |-> FALSE, q |-> TwoTo52, e |-> e + 1]
    ELSE IF e > MaxBinaryExponent THEN DoubleInfinity
    ELSE [inf |-> FALSE, q |-> q, e |-> e]

\* w / 10^z: the whole part and the z digits after the point
WholeDigits(w, z) == SignificantDigits(SubSeq(w, 1, Len(w) - z))

FractionDigits(w, z) ==
    LET p == Zeros(z) \o w IN SubSeq(p, Len(p) - z + 1, Len(p))

\* the double nearest to w / 10^z over 2^p: w is doubled, for the least p
\* from the given one on, until the whole part is 2^52 or -p is the least
\* exponent; the whole part is then q, one more when the fraction is above
\* a half, or is a half and q is odd
RECURSIVE ScaleUp(_, _, _)
ScaleUp(w, z, p) ==
    IF p < -MinBinaryExponent /\ Less(WholeDigits(w, z), TwoTo52)
    THEN ScaleUp(Twice(w), z, p + 1)
    ELSE LET q == WholeDigits(w, z)
             f == FractionDigits(w, z)
             half == z > 0 /\ f[1] = 5 /\ AllZero(SubSeq(f, 2, z))
             above == z > 0 /\ f[1] >= 5 /\ ~half
             up == above \/ (half /\ IsOdd(q))
         IN  AsDouble(IF up THEN Increment(q) ELSE q, -p)

\* the double nearest to a number whose whole part, over 2^e, is i: i is
\* halved, for the least e from the given one on, until it is under 2^53;
\* last is the bit halved away last, sticky tells whether anything was lost
\* before it; q is then i, one more when what was lost is above a half, or
\* is a half and i is odd
RECURSIVE ScaleDown(_, _, _, _)
ScaleDown(i, e, last, sticky) ==
    IF ~Less(i, TwoTo53) THEN ScaleDown(Halve(i), e + 1, IsOdd(i), sticky \/ last)
    ELSE AsDouble(IF last /\ (sticky \/ IsOdd(i)) THEN Increment(i) ELSE i, e)

\* ScaleUp(w, z, 0).  The first n doublings are done at once when the whole
\* part is still under 2^52 after them, as it is for the n here: w / 10^z
\* is under 10^order, and 10 is under 2^3.4 and over 2^3.3
ScaledUp(w, z) ==
    LET order == Len(w) - z
        m == 49 - (IF order > 0 THEN (34 * order + 9) \div 10 ELSE (33 * order) \div 10)
        n == IF m < 0 THEN 0 ELSE IF m > -MinBinaryExponent THEN -MinBinaryExponent ELSE m
        v == TimesTwoTo(w, n)
    IN  IF Less(WholeDigits(v, z), TwoTo52) THEN ScaleUp(v, z, n) ELSE ScaleUp(w, z, 0)

\* ScaleDown(i, 0, FALSE, sticky).  The first n halvings are done at once
\* when the natural is still 2^53 or more after them, as it is for the n
\* here: i is 10^(Len(i) - 1) or more
ScaledDown(i, sticky) ==
    LET m == (33 * (Len(i) - 1)) \div 10 - 54
        n == IF m < 0 THEN 0 ELSE m
        h == OverTwoTo(i, n - 1)
    IN  IF n > 0 /\ ~Less(Halve(h), TwoTo53)
        THEN ScaleDown(Halve(h), n, IsOdd(h), sticky \/ TimesTwoTo(h, n - 1) # i)
        ELSE ScaleDown(i, 0, FALSE, sticky)

\* the double nearest to a * 10^x, the one with the even q when two are
\* equally near (a has no zero at either end and is not empty)
RoundToDouble(a, x) ==
    IF Len(a) + x > MaxDecimalOrder THEN DoubleInfinity
    ELSE IF Len(a) + x < MinDecimalOrder THEN Double0
    ELSE LET w == IF x > 0 THEN a \o Zeros(x) ELSE a
             z == IF x < 0 THEN -x ELSE 0
         IN  IF ~Less(WholeDigits(w, z), TwoTo53)
             THEN ScaledDown(WholeDigits(w, z), ~AllZero(FractionDigits(w, z)))
             ELSE ScaledUp(w, z)

\* a decimal a * 10^x without zeros at the end of a
Shortened(a, x) ==
    [digits |-> SubSeq(a, 1, Len(a) - TrailingZeros(a)), exp |-> x + TrailingZeros(a)]

\* the value of a double, exactly: q * 2^e = (q * 10^-e \div 2^-e) * 10^e
ExactDecimal(d) ==
    IF d.e >= 0 THEN Shortened(TimesTwoTo(d.q, d.e), 0)
    ELSE Shortened(OverTwoTo(d.q \o Zeros(-d.e), -d.e), d.e)

\* the decimal of the fewest digits, k or more, that rounds to d: the one
\* nearest to d when two of that length do, the even one when they are
\* equally near; v is the value of d
RECURSIVE ShortestFrom(_, _, _)
ShortestFrom(d, v, k) ==
    IF Len(v.digits) <= k THEN v
    ELSE LET x == v.exp + Len(v.digits) - k
             below == SubSeq(v.digits, 1, k)
             rest == SubSeq(v.digits, k + 1, Len(v.digits))
             lo == Shortened(below, x)
             hi == Shortened(Increment(below), x)
             half == rest[1] = 5 /\ AllZero(SubSeq(rest, 2, Len(rest)))
             nearerHi == (rest[1] >= 5 /\ ~half) \/ (half /\ IsOdd(below))
             near == IF nearerHi THEN hi ELSE lo
             far == IF nearerHi THEN lo ELSE hi
             Fits(c) == RoundToDouble(c.digits, c.exp) = d
         IN  IF Fits(near) THEN near
             ELSE IF Fits(far) THEN far
             ELSE ShortestFrom(d, v, k + 1)

\* the ExponentPart at the head of s: e or E, an optional sign, digits; 0
\* when s does not start with one
ExponentOf(s) ==
    IF s = <<>> \/ s[1] \notin {"e", "E"} THEN 0
    ELSE LET u == Tail(s)
             signed == u # <<>> /\ u[1] \in {"+", "-"}
             ds == DigitPrefix(IF signed THEN Tail(u) ELSE u)
         IN  IF ds = <<>> THEN 0
             ELSE IF signed /\ u[1] = "-" THEN -DigitsValue(ds) ELSE DigitsValue(ds)

\* parseFloat: leading whitespace skipped, then the longest prefix that is a
\* StrDecimalLiteral: [+-] Infinity, or [+-] digits [. [digits]] [exponent],
\* or [+-] . digits [exponent]; NaN (here <<>>) when there is none, else the
\* double nearest to the decimal read
parseFloat(text) ==
    LET t == TrimLeft(text)
        signed == t # <<>> /\ t[1] \in {"+", "-"}
        sign == IF signed /\ t[1] = "-" THEN -1 ELSE 1
        body == IF signed THEN Tail(t) ELSE t
        int == DigitPrefix(body)
        rest == SubSeq(body, Len(int) + 1, Len(body))
        dotted == rest # <<>> /\ rest[1] = "."
        frac == IF dotted THEN DigitPrefix(Tail(rest)) ELSE <<>>
        after == IF dotted THEN SubSeq(rest, Len(frac) + 2, Len(rest)) ELSE rest
        read == Shortened(SignificantDigits(Numerals(int \o frac)),
                          ExponentOf(after) - Len(frac))
        Named(name) == <<Decimal(sign, name.digits, -name.exp)>>
        Number(d) == IF d.inf THEN <<Infinite(sign)>>
                     ELSE IF Len(d.q) = 0 THEN <<Decimal(sign, <<>>, 0)>>
                     ELSE Named(ShortestFrom(d, ExactDecimal(d), 1))
    IN  IF Len(body) >= Len(InfinityLiteral)
           /\ SubSeq(body, 1, Len(InfinityLiteral)) = InfinityLiteral
        THEN <<Infinite(sign)>>
        ELSE IF int = <<>> /\ frac = <<>> THEN <<>>
        ELSE IF Len(read.digits) = 0 THEN <<Decimal(sign, <<>>, 0)>>
        ELSE Number(RoundToDouble(read.digits, read.exp))

CurrencySigns == {"$", PoundSign, EuroSign, NairaSign, RupeeSign, YenSign}

parsePrice(priceText) ==
    IF ~Truthy(priceText) THEN <<>>
    ELSE parseFloat(Trim(RemoveChars(RemoveChars(priceText, CurrencySigns), {",", " "})))

PriceAlphabet == {"$", NairaSign, "0", "1", ",", ".", " ", "a", "e", "-"}

PriceExamples ==
    {<<"$","9","9","9",".","9","9">>,
     <<NairaSign,"4","5","0",",","0","0","0",".","0","0">>,
     <<"I","n","f","i","n","i","t","y">>,
     <<"$","I","n","f","i","n","i","t","y">>,
     <<"-","I","n","f","i","n","i","t","y">>,
     <<"I","n","f","i","n","i","t">>,
     <<"i","n","f","i","n","i","t","y">>,
     <<"1",".","5","e","-","2">>,
     <<"2","E","+","3">>,
     <<"1",".","e","3">>,
     <<"1","e","9","9","9">>,
     <<"1","e","-","9","9","9">>,
     <<"2","e","3","0","8">>,
     <<"1","e","-","3","2","4">>,
     <<"3","e","-","3","2","4">>}

PriceTexts == UNION {[1..n -> PriceAlphabet] : n \in 0..MaxPriceLen} \cup PriceExamples

InitPrice ==
    /\ now = 0
    /\ events = 0
    /\ nextSweep = SWEEP_INTERVAL
    /\ cache = EmptyCache
    /\ pref = <<>>
    /\ pendingClear = 0
    /\ pendingSend = 0
    /\ cachedRates = <<>>
    /\ req = [r \in Reqs |-> IdleReq]
    /\ lastResponse = <<>>
    /\ cleared = 0
    /\ clearedKeys = {}
    /\ refilled = {}
    /\ args \in [text : PriceTexts]
    /\ result = <<>>
    /\ trackedProducts = <<>>
    /\ calls = <<>>

ParsePrice ==
    /\ result = <<>>
    /\ result' = <<[value |-> parsePrice(args.text)]>>
    /\ UNCHANGED <<now, events, nextSweep, cache, pref, pendingClear, pendingSend, cachedRates,
                   req, lastResponse, cleared, clearedKeys, refilled, args,
                   trackedProducts, calls>>

NextPrice == ParsePrice

SpecPrice == InitPrice /\ [][NextPrice]_vars

(***************************************************************************)
(* extractors: the page.  args = [location, pathname, dom, fault]:         *)
(* window.location.hostname and .pathname; dom maps a selector to the      *)
(* element document.querySelector returns for it (a selector outside its   *)
(* domain matches nothing); fault names the step of an extractor whose DOM *)
(* access throws.                                                          *)
(***************************************************************************)
ZeroWidth == "U+200B"

Element(text) == [textContent |-> text]

\* document.querySelector(selector)
documentQuerySelector(selector) ==
    IF selector \in DOMAIN args.dom THEN <<args.dom[selector]>> ELSE <<>>


RECURSIVE querySelector(_)
querySelector(selectors) ==
    IF selectors = <<>> THEN <<>>
    ELSE LET element == documentQuerySelector(selectors[1])
         IN  IF element # <<>> THEN element ELSE querySelector(Tail(selectors))

getTextContent(element) ==
    IF element = <<>> THEN <<>>
    ELSE LET text == Trim(element[1].textContent)
         IN  IF ~Truthy(text) THEN <<>>
             ELSE Trim(CollapseSpaces(RemoveChars(text, {ZeroWidth})))

\* s.split(/\s+/) of a trimmed string
RECURSIVE SplitSpaces(_)
SplitSpaces(s) ==
    IF \A i \in 1..Len(s) : ~IsSpace(s[i]) THEN <<s>>
    ELSE LET i == CHOOSE j \in 1..Len(s) :
                      IsSpace(s[j]) /\ \A h \in 1..(j - 1) : ~IsSpace(s[h])
         IN  <<SubSeq(s, 1, i - 1)>> \o SplitSpaces(TrimLeft(SubSeq(s, i, Len(s))))

shortenTitle(title, maxWords) ==
    IF ~Truthy(title) THEN <<>>
    ELSE LET words == SplitSpaces(Trim(title))
         IN  IF Len(words) <= maxWords THEN Trim(title)
             ELSE Join(SubSeq(words, 1, maxWords), <<" ">>)

HostAmazon == <<"a","m","a","z","o","n",".","c","o","m">>
HostEbay == <<"e","b","a","y",".","c","o","m">>
HostJumia == <<"j","u","m","i","a",".","c","o","m">>
HostKonga == <<"k","o","n","g","a",".","c","o","m">>

isAmazonProductPage ==
    /\ Includes(args.location, HostAmazon)
    /\ \/ Includes(args.pathname, <<"/","d","p","/">>)
       \/ Includes(args.pathname, <<"/","g","p","/","p","r","o","d","u","c","t","/">>)

isEbayProductPage ==
    /\ Includes(args.location, HostEbay)
    /\ \/ Includes(args.pathname, <<"/","i","t","m","/">>)
       \/ Includes(args.pathname, <<"/","p","/">>)

isJumiaProductPage ==
    /\ Includes(args.location, HostJumia)
    /\ Includes(args.pathname, <<".","h","t","m","l">>)

isKongaProductPage ==
    /\ Includes(args.location, HostKonga)
    /\ \/ Includes(args.pathname, <<"/","p","r","o","d","u","c","t","/">>)
       \/ Includes(args.pathname, <<"/","p","/">>)

\* mutant of detectCurrentSite: konga is tried before ebay
detectCurrentSiteKongaFirst ==
    IF isAmazonProductPage THEN "amazon"
    ELSE IF isKongaProductPage THEN "konga"
    ELSE IF isEbayProductPage THEN "ebay"
    ELSE IF isJumiaProductPage THEN "jumia"
    ELSE "unknown"

detectCurrentSite ==
    IF isAmazonProductPage THEN "amazon"
    ELSE IF isEbayProductPage THEN "ebay"
    ELSE IF isJumiaProductPage THEN "jumia"
    ELSE IF isKongaProductPage THEN "konga"
    ELSE "unknown"

Sites == {"amazon", "ebay", "jumia", "konga"}

TitleSelectors(site) ==
    CASE site = "amazon" -> <<"#productTitle", "#title", ".product-title">>
      [] site = "ebay" -> <<".x-item-title__mainTitle", ".it-ttl", "#itemTitle", "h1.it-ttl">>
      [] site = "jumia" -> <<"h1.-fs20.-pts.-pbxs", ".name", "h1.title", ".product-title">>
      [] site = "konga" -> <<"h1", ".product-name", ".product-title", "h1.title",
                             ".product-details-name", "[class*='product'] h1",
                             "[class*='title']">>

PriceSelectors(site) ==
    CASE site = "amazon" -> <<".a-price .a-offscreen", "#priceblock_ourprice",
                              "#priceblock_dealprice", ".a-price-whole">>
      [] site = "ebay" -> <<".x-price-primary .ux-textspans", ".notranslate.vi-VR-cvipPrice",
                            "#prcIsum", ".ux-textspans.ux-textspans--BOLD">>
      [] site = "jumia" -> <<".-b.-ltr.-tal.-fs24.-prxs", ".price-box .price", ".-paxs",
                             ".special-price">>
      [] site = "konga" -> <<"[class*='price']", ".price-box .price", ".product-price",
                             ".current-price", ".special-price", "[data-price]">>

\* the hostname an extractor hands to detectCurrency
CurrencyHost(site) == IF site = "konga" THEN HostKonga ELSE <<>>

\* what the body of an extractor does: return a value or throw
Returned(value) == [value |-> value, threw |-> FALSE]

Thrown == [value |-> <<>>, threw |-> TRUE]

ExtractBody(site) ==
    IF args.fault = "title" THEN Thrown
    ELSE LET rawTitle == getTextContent(querySelector(TitleSelectors(site)))
         IN  IF ~Truthy(rawTitle) THEN Returned(<<>>)
             ELSE IF args.fault # "none" THEN Thrown
             ELSE LET short == shortenTitle(rawTitle, 7)
                      priceText == getTextContent(querySelector(PriceSelectors(site)))
                  IN  Returned(<<[title |-> IF Truthy(short) THEN short ELSE rawTitle,
                                  current_price |-> parsePrice(priceText),
                                  currency |-> detectCurrency(priceText, CurrencyHost(site)),
                                  current_site |-> site]>>)

\* mutant of SiteExtractor: no catch block
SiteExtractorNoCatch(site) == ExtractBody(site)

\* extractAmazonProduct, extractEbayProduct, extractJumiaProduct,
\* extractKongaProduct: the body inside try, and catch returning null
SiteExtractor(site) ==
    LET body == ExtractBody(site)
    IN  IF body.threw THEN Returned(<<>>) ELSE body

extractProductFromPage ==
    LET site == detectCurrentSite
    IN  IF site = "unknown"
        THEN [site |-> site, invoked |-> <<>>, value |-> <<>>, threw |-> FALSE]
        ELSE LET r == SiteExtractor(site)
             IN  [site |-> site, invoked |-> <<site>>, value |-> r.value, threw |-> r.threw]

(***************************************************************************)
(* Specification of site detection: locations made of host and path parts  *)
(***************************************************************************)
HostParts == {HostAmazon, HostEbay, HostJumia, HostKonga, <<"x",".","o","r","g">>}

PathParts == {<<"/","d","p","/">>, <<"/","g","p","/","p","r","o","d","u","c","t","/">>, <<"/","i","t","m","/">>, <<"/","p","/">>, <<"/","p","r","o","d","u","c","t","/">>, <<".","h","t","m","l">>}

RECURSIVE Concat(_)
Concat(parts) == IF parts = <<>> THEN <<>> ELSE parts[1] \o Concat(Tail(parts))

\* the regional domains named in the extractors' doc comments
EbayUk == <<"e","b","a","y",".","c","o",".","u","k">>
AmazonUk == <<"a","m","a","z","o","n",".","c","o",".","u","k">>
JumiaKenya == <<"j","u","m","i","a",".","c","o",".","k","e">>

RegionalHosts == {EbayUk, AmazonUk, JumiaKenya}

SiteHosts ==
    {Join(ps, <<".">>) : ps \in UNION {[1..n -> HostParts] : n \in 1..MaxHostParts}}
        \cup RegionalHosts

SitePaths ==
    {Concat(ps) : ps \in UNION {[1..n -> PathParts] : n \in 1..MaxPathParts}}

TitledDom ==
    [sel \in {TitleSelectors(site)[1] : site \in Sites} |-> Element(<<"T","v">>)]

EmptyDom == [sel \in {} |-> Element(<<>>)]

SiteDoms == {EmptyDom, TitledDom}

InitSite ==
    /\ now = 0
    /\ events = 0
    /\ nextSweep = SWEEP_INTERVAL
    /\ cache = EmptyCache
    /\ pref = <<>>
    /\ pendingClear = 0
    /\ pendingSend = 0
    /\ cachedRates = <<>>
    /\ req = [r \in Reqs |-> IdleReq]
    /\ lastResponse = <<>>
    /\ cleared = 0
    /\ clearedKeys = {}
    /\ refilled = {}
    /\ args \in [location : SiteHosts, pathname : SitePaths, dom : SiteDoms,
                  fault : {"none"}]
    /\ result = <<>>
    /\ trackedProducts = <<>>
    /\ calls = <<>>

ExtractFromPage ==
    /\ result = <<>>
    /\ result' = <<extractProductFromPage>>
    /\ UNCHANGED <<now, events, nextSweep, cache, pref, pendingClear, pendingSend, cachedRates,
                   req, lastResponse, cleared, clearedKeys, refilled, args,
                   trackedProducts, calls>>

NextSite == ExtractFromPage

SpecSite == InitSite /\ [][NextSite]_vars

(***************************************************************************)
(* Specification of the site extractors: one extractor run on a page whose *)
(* first MaxSelectors title selectors and first price selector may match   *)
(* an element.  args = [site, location, pathname, dom, fault].             *)
(***************************************************************************)
EightWords ==
    <<"a"," ","a"," ","a"," ","a"," ","a"," ","a"," ","a"," ","b">>

TitleTexts ==
    {<<>>, <<" ">>, <<ZeroWidth>>, <<"a">>, <<" ","a"," "," ","b">>, EightWords}

TitleDoms(site) ==
    UNION {[S -> {Element(t) : t \in TitleTexts}]
             : S \in SUBSET {TitleSelectors(site)[i] : i \in 1..MaxSelectors}}

PriceDoms(site) ==
    {EmptyDom, PriceSelectors(site)[1] :> Element(<<"$","1">>)}

ExtractDoms(site) ==
    {t @@ p : t \in TitleDoms(site), p \in PriceDoms(site)}

\* the step of the extractor at which a DOM access throws, if any
Faults == {"none", "title", "price", "image"}

ExtractInputs ==
    UNION {{[site |-> s, location |-> <<"a",".","n","g">>, pathname |-> <<>>,
             dom |-> d, fault |-> f] : d \in ExtractDoms(s), f \in Faults} : s \in Sites}

InitExtract ==
    /\ now = 0
    /\ events = 0
    /\ nextSweep = SWEEP_INTERVAL
    /\ cache = EmptyCache
    /\ pref = <<>>
    /\ pendingClear = 0
    /\ pendingSend = 0
    /\ cachedRates = <<>>
    /\ req = [r \in Reqs |-> IdleReq]
    /\ lastResponse = <<>>
    /\ cleared = 0
    /\ clearedKeys = {}
    /\ refilled = {}
    /\ args \in ExtractInputs
    /\ result = <<>>
    /\ trackedProducts = <<>>
    /\ calls = <<>>

Extract ==
    /\ result = <<>>
    /\ result' = <<SiteExtractor(args.site)>>
    /\ UNCHANGED <<now, events, nextSweep, cache, pref, pendingClear, pendingSend, cachedRates,
                   req, lastResponse, cleared, clearedKeys, refilled, args,
                   trackedProducts, calls>>

NextExtract == Extract

SpecExtract == InitExtract /\ [][NextExtract]_vars

(***************************************************************************)
(* extractors/utils.ts: extractFromTable.  A row has a tag name, its text, *)
(* and the text of its key cell and value cell when it has them; the       *)
(* result is undefined (<<>>) or a one-element sequence with the string.   *)
(***************************************************************************)
\* text.split(/[:\-]/)
RECURSIVE Split(_, _)
Split(text, delimiters) ==
    IF \A i \in 1..Len(text) : text[i] \notin delimiters THEN <<text>>
    ELSE LET i == CHOOSE j \in 1..Len(text) :
                      text[j] \in delimiters /\ \A h \in 1..(j - 1) : text[h] \notin delimiters
         IN  <<SubSeq(text, 1, i - 1)>> \o Split(SubSeq(text, i + 1, Len(text)), delimiters)

\* value.replace(/^[:\-\s]+/, "")
RECURSIVE StripLeading(_, _)
StripLeading(s, class) ==
    IF s # <<>> /\ s[1] \in class THEN StripLeading(Tail(s), class) ELSE s

Row(tagName, textContent, keyCell, valueCell) ==
    [tagName |-> tagName, textContent |-> textContent,
     keyCell |-> keyCell, valueCell |-> valueCell]

\* keyPattern.test(keyText) for the pattern /k/
keyPatternTest(keyText) == Includes(keyText, <<"k">>)

\* parts.slice(1).join(":").trim()
ListItemValue(parts) == Trim(Join(Tail(parts), <<":">>))

RECURSIVE extractFromTable(_)
extractFromTable(rows) ==
    IF rows = <<>> THEN <<>>
    ELSE LET row == rows[1]
             cellKey == IF row.keyCell = <<>> THEN <<>>
                        ELSE toLowerCase(Trim(row.keyCell[1].textContent))
             parts == Split(row.textContent, {":", "-"})
             listItem == row.valueCell = <<>> /\ row.tagName = "LI" /\ Len(parts) >= 2
             keyText == IF listItem THEN toLowerCase(Trim(parts[1])) ELSE cellKey
             value == getTextContent(row.valueCell)
         IN  IF listItem /\ keyPatternTest(keyText) THEN <<ListItemValue(parts)>>
             ELSE IF keyPatternTest(keyText) /\ Truthy(value)
                  THEN <<Trim(StripLeading(value, {":", "-", " "}))>>
             ELSE extractFromTable(Tail(rows))

RowAlphabet == {"K", "v", ":", "-", " "}

RowTexts == UNION {[1..n -> RowAlphabet] : n \in 0..MaxRowLen}

ListItems == {Row("LI", t, <<>>, <<>>) : t \in RowTexts}

TableRows ==
    {Row("TR", k \o v, <<Element(k)>>, <<Element(v)>>)
        : k \in {<<"K">>, <<"v">>}, v \in {<<>>, <<":"," ","v">>}}
    \cup {Row("LI", <<"K","v">>, <<Element(<<"K">>)>>, <<>>),
          Row("LI", <<"v",":","K">>, <<>>, <<>>)}

Tables ==
    {<<r>> : r \in ListItems \cup TableRows}
    \cup {<<r, q>> : r \in TableRows, q \in TableRows}

InitTable ==
    /\ now = 0
    /\ events = 0
    /\ nextSweep = SWEEP_INTERVAL
    /\ cache = EmptyCache
    /\ pref = <<>>
    /\ pendingClear = 0
    /\ pendingSend = 0
    /\ cachedRates = <<>>
    /\ req = [r \in Reqs |-> IdleReq]
    /\ lastResponse = <<>>
    /\ cleared = 0
    /\ clearedKeys = {}
    /\ refilled = {}
    /\ args \in [rows : Tables]
    /\ result = <<>>
    /\ trackedProducts = <<>>
    /\ calls = <<>>

ExtractFromTable ==
    /\ result = <<>>
    /\ result' = <<[value |-> extractFromTable(args.rows)]>>
    /\ UNCHANGED <<now, events, nextSweep, cache, pref, pendingClear, pendingSend, cachedRates,
                   req, lastResponse, cleared, clearedKeys, refilled, args,
                   trackedProducts, calls>>

NextTable == ExtractFromTable

SpecTable == InitTable /\ [][NextTable]_vars

(***************************************************************************)
(* storage.ts: tracked products.  A call reads the stored list, works on   *)
(* its copy and writes the copy back; the read and the write are separate  *)
(* steps, so calls interleave.  A tracked product keeps the fields the     *)
(* functions read or write; title, currency and image are copied through   *)
(* and left out.                                                           *)
(***************************************************************************)
\* the code unit of a character of a URL
charCodeAt(c) ==
    CASE c = "." -> 46 [] c = "/" -> 47 [] c = ":" -> 58 [] c = "a" -> 97
      [] c = "b" -> 98 [] c = "c" -> 99 [] c = "h" -> 104 [] c = "m" -> 109
      [] c = "o" -> 111 [] c = "p" -> 112 [] c = "s" -> 115 [] c = "t" -> 116

Base64Alphabet ==
    <<"A","B","C","D","E","F","G","H","I","J","K","L","M","N","O","P","Q","R","S","T","U","V","W","X","Y","Z","a","b","c","d","e","f","g","h","i","j","k","l","m","n","o","p","q","r","s","t","u","v","w","x","y","z","0","1","2","3","4","5","6","7","8","9","+","/">>

Base64Char(n) == Base64Alphabet[(n % 64) + 1]

\* btoa: three bytes give four characters, a shorter tail is padded with "="
RECURSIVE btoa(_)
btoa(text) ==
    IF text = <<>> THEN <<>>
    ELSE LET b1 == charCodeAt(text[1])
             b2 == IF Len(text) >= 2 THEN charCodeAt(text[2]) ELSE 0
             b3 == IF Len(text) >= 3 THEN charCodeAt(text[3]) ELSE 0
             n == b1 * 65536 + b2 * 256 + b3
         IN  IF Len(text) = 1
             THEN <<Base64Char(n \div 262144), Base64Char(n \div 4096), "=", "=">>
             ELSE IF Len(text) = 2
             THEN <<Base64Char(n \div 262144), Base64Char(n \div 4096),
                    Base64Char(n \div 64), "=">>
             ELSE <<Base64Char(n \div 262144), Base64Char(n \div 4096),
                    Base64Char(n \div 64), Base64Char(n)>>
                  \o btoa(SubSeq(text, 4, Len(text)))

\* s.slice(0, end)
SliceTo(s, end) == SubSeq(s, 1, IF Len(s) < end THEN Len(s) ELSE end)

ID_LENGTH == 20

generateProductId(site, url) ==
    toLowerCase(site) \o <<"-">> \o SliceTo(btoa(url), ID_LENGTH)

HISTORY_LIMIT == 30

PricePoint(price, timestamp) == [price |-> price, timestamp |-> timestamp]

\* the TrackedProduct built by trackProduct
NewTrackedProduct(id, site, url, price) ==
    [id |-> id, site |-> site, url |-> url, current_price |-> price,
     tracked_at |-> now, last_checked |-> now,
     price_history |-> <<PricePoint(price, now)>>]

\* products.find((p) => p.id === id): the index of the first match, 0 if none
FindIndex(products, id) ==
    IF \E i \in 1..Len(products) : products[i].id = id
    THEN CHOOSE i \in 1..Len(products) :
             products[i].id = id /\ \A h \in 1..(i - 1) : products[h].id # id
    ELSE 0

\* price_history.slice(-30)
SliceLast(history, n) ==
    IF Len(history) > n THEN SubSeq(history, Len(history) - n + 1, Len(history))
    ELSE history

\* mutant of PricedProduct: a point is appended on every update
PricedProductAlways(product, newPrice) ==
    [product EXCEPT !.price_history = SliceLast(Append(@, PricePoint(newPrice, now)),
                                                 HISTORY_LIMIT),
                    !.current_price = newPrice,
                    !.last_checked = now]

\* updateProductPrice: what it does to the product it found
PricedProduct(product, newPrice) ==
    [product EXCEPT !.price_history =
                        IF product.current_price # newPrice
                        THEN SliceLast(Append(@, PricePoint(newPrice, now)), HISTORY_LIMIT)
                        ELSE @,
                    !.current_price = newPrice,
                    !.last_checked = now]

\* the frame of a call
IdleCall ==
    [op |-> "idle", pc |-> "idle", site |-> <<>>, url |-> <<>>, productId |-> <<>>,
     price |-> 0, products |-> <<>>, returned |-> <<>>]

TrackCalls == 1..MaxCalls

\* a call can start: the run is not over and the frame is free
CanCall(c) ==
    /\ events < MaxTrackEvents
    /\ calls[c].pc \in {"idle", "done", "failed"}
    /\ \A d \in TrackCalls : d < c => calls[d].pc # "idle"

\* trackProduct(product, url), to its first await
CallTrackProduct(c, site, url, price) ==
    /\ CanCall(c)
    /\ events' = events + 1
    /\ calls' = [calls EXCEPT ![c] =
                    [IdleCall EXCEPT !.op = "trackProduct", !.pc = "get",
                                     !.site = site, !.url = url, !.price = price]]
    /\ UNCHANGED <<now, nextSweep, cache, pref, pendingClear, pendingSend, cachedRates, req,
                   lastResponse, cleared, clearedKeys, refilled, args, result,
                   trackedProducts>>

\* untrackProduct(productId), to its first await
CallUntrackProduct(c, productId) ==
    /\ CanCall(c)
    /\ events' = events + 1
    /\ calls' = [calls EXCEPT ![c] =
                    [IdleCall EXCEPT !.op = "untrackProduct", !.pc = "get",
                                     !.productId = productId]]
    /\ UNCHANGED <<now, nextSweep, cache, pref, pendingClear, pendingSend, cachedRates, req,
                   lastResponse, cleared, clearedKeys, refilled, args, result,
                   trackedProducts>>

\* updateProductPrice(productId, newPrice), to its first await
CallUpdateProductPrice(c, productId, newPrice) ==
    /\ CanCall(c)
    /\ events' = events + 1
    /\ calls' = [calls EXCEPT ![c] =
                    [IdleCall EXCEPT !.op = "updateProductPrice", !.pc = "get",
                                     !.productId = productId, !.price = newPrice]]
    /\ UNCHANGED <<now, nextSweep, cache, pref, pendingClear, pendingSend, cachedRates, req,
                   lastResponse, cleared, clearedKeys, refilled, args, result,
                   trackedProducts>>

\* trackProduct after getTrackedProducts, to saveTrackedProducts or the return
TrackProductStep(frame, products) ==
    LET id == generateProductId(frame.site, frame.url)
        existing == FindIndex(products, id)
        trackedProduct == NewTrackedProduct(id, frame.site, frame.url, frame.price)
    IN  IF existing # 0
        THEN [frame EXCEPT !.pc = "done", !.products = products,
                           !.returned = <<products[existing]>>]
        ELSE [frame EXCEPT !.pc = "set", !.products = Append(products, trackedProduct),
                           !.returned = <<trackedProduct>>]

UntrackProductStep(frame, products) ==
    [frame EXCEPT !.pc = "set",
                  !.products = SelectSeq(products, LAMBDA p : p.id # frame.productId)]

UpdateProductPriceStep(frame, products) ==
    LET found == FindIndex(products, frame.productId)
    IN  IF found = 0
        THEN [frame EXCEPT !.pc = "done", !.products = products]
        ELSE LET product == PricedProduct(products[found], frame.price)
             IN  [frame EXCEPT !.pc = "set",
                               !.products = [products EXCEPT ![found] = product],
                               !.returned = <<product>>]

\* getTrackedProducts settles: the stored list, or [] when storage rejects
StorageGet(c, ok) ==
    /\ calls[c].pc = "get"
    /\ LET products == IF ok THEN trackedProducts ELSE <<>>
       IN  calls' = [calls EXCEPT ![c] =
                        CASE calls[c].op = "trackProduct" ->
                                TrackProductStep(calls[c], products)
                          [] calls[c].op = "untrackProduct" ->
                                UntrackProductStep(calls[c], products)
                          [] calls[c].op = "updateProductPrice" ->
                                UpdateProductPriceStep(calls[c], products)]
    /\ UNCHANGED <<now, events, nextSweep, cache, pref, pendingClear, pendingSend, cachedRates, req,
                   lastResponse, cleared, clearedKeys, refilled, args, result,
                   trackedProducts>>

\* saveTrackedProducts settles: the copy is stored and the call returns
StorageSet(c) ==
    /\ calls[c].pc = "set"
    /\ trackedProducts' = calls[c].products
    /\ calls' = [calls EXCEPT ![c].pc = "done"]
    /\ UNCHANGED <<now, events, nextSweep, cache, pref, pendingClear, pendingSend, cachedRates, req,
                   lastResponse, cleared, clearedKeys, refilled, args, result>>

\* saveTrackedProducts rejects: the call throws
StorageSetFails(c) ==
    /\ calls[c].pc = "set"
    /\ calls' = [calls EXCEPT ![c].pc = "failed", ![c].returned = <<>>]
    /\ UNCHANGED <<now, events, nextSweep, cache, pref, pendingClear, pendingSend, cachedRates, req,
                   lastResponse, cleared, clearedKeys, refilled, args, result,
                   trackedProducts>>

(***************************************************************************)
(* Specification of tracking: calls that interleave on a few URLs of one   *)
(* site, two of which share their first fifteen characters.                *)
(***************************************************************************)
UrlPrefix == <<"h","t","t","p","s",":","/","/","a",".","c","o","m","/">>

UrlTails == {<<>>} \cup [1..MaxUrlTail -> {"a", "b"}]

TrackUrls == {UrlPrefix \o tail : tail \in UrlTails}

TrackSites == {<<"A","b","c">>}

TrackIds == {generateProductId(site, url) : site \in TrackSites, url \in TrackUrls}

TrackPrices == {1, 2}

InitTrack ==
    /\ now = 0
    /\ events = 0
    /\ nextSweep = SWEEP_INTERVAL
    /\ cache = EmptyCache
    /\ pref = <<>>
    /\ pendingClear = 0
    /\ pendingSend = 0
    /\ cachedRates = <<>>
    /\ req = [r \in Reqs |-> IdleReq]
    /\ lastResponse = <<>>
    /\ cleared = 0
    /\ clearedKeys = {}
    /\ refilled = {}
    /\ args = <<>>
    /\ result = <<>>
    /\ trackedProducts = <<>>
    /\ calls = [c \in TrackCalls |-> IdleCall]

NextTrack ==
    \/ \E c \in TrackCalls, site \in TrackSites, url \in TrackUrls :
            CallTrackProduct(c, site, url, 1)
    \/ \E c \in TrackCalls, id \in TrackIds : CallUntrackProduct(c, id)
    \/ \E c \in TrackCalls, id \in TrackIds, price \in TrackPrices :
            CallUpdateProductPrice(c, id, price)
    \/ \E c \in TrackCalls, ok \in BOOLEAN : StorageGet(c, ok)
    \/ \E c \in TrackCalls : StorageSet(c)
    \/ \E c \in TrackCalls : StorageSetFails(c)

SpecTrack == InitTrack /\ [][NextTrack]_vars

(***************************************************************************)
(* Specification of the price history: calls on one product that           *)
(* interleave as in SpecTrack, while the clock advances.  The run starts   *)
(* with nothing stored or with the product as trackProduct and a number of *)
(* updateProductPrice calls, one after the other, left it: tracked at time *)
(* 0 and updated at times 1, 2, ..., each time with a price other than the *)
(* current one.  args = [seed |-> the number of points stored at the       *)
(* start].                                                                 *)
(***************************************************************************)
HistoryUrl == UrlPrefix

HistorySite == <<"A","b","c">>

HistoryId == generateProductId(HistorySite, HistoryUrl)

\* the price of the i-th point of the stored history: 1, 2, 1, 2, ...
SeedPrice(i) == IF i % 2 = 1 THEN 1 ELSE 2

\* the product after trackProduct at time 0 and n - 1 updates
SeededProduct(n) ==
    [id |-> HistoryId, site |-> HistorySite, url |-> HistoryUrl,
     current_price |-> SeedPrice(n), tracked_at |-> 0, last_checked |-> n - 1,
     price_history |-> [i \in 1..n |-> PricePoint(SeedPrice(i), i - 1)]]

HistorySeeds == {0, HISTORY_LIMIT - 1, HISTORY_LIMIT}

HistoryPrices == {1, 2, 3}

InitHistory ==
    /\ args \in [seed : HistorySeeds]
    /\ now = args.seed
    /\ events = 0
    /\ nextSweep = SWEEP_INTERVAL
    /\ cache = EmptyCache
    /\ pref = <<>>
    /\ pendingClear = 0
    /\ pendingSend = 0
    /\ cachedRates = <<>>
    /\ req = [r \in Reqs |-> IdleReq]
    /\ lastResponse = <<>>
    /\ cleared = 0
    /\ clearedKeys = {}
    /\ refilled = {}
    /\ result = <<>>
    /\ trackedProducts = IF args.seed = 0 THEN <<>> ELSE <<SeededProduct(args.seed)>>
    /\ calls = [c \in TrackCalls |-> IdleCall]

\* Date.now() moves on, at most once per call started
Elapse ==
    /\ now < args.seed + events
    /\ now' = now + 1
    /\ UNCHANGED <<events, nextSweep, cache, pref, pendingClear, pendingSend,
                   cachedRates, req, lastResponse, cleared, clearedKeys, refilled,
                   args, result, trackedProducts, calls>>

NextHistory ==
    \/ \E c \in TrackCalls : CallTrackProduct(c, HistorySite, HistoryUrl, 1)
    \/ \E c \in TrackCalls, price \in HistoryPrices :
            CallUpdateProductPrice(c, HistoryId, price)
    \/ \E c \in TrackCalls, ok \in BOOLEAN : StorageGet(c, ok)
    \/ \E c \in TrackCalls : StorageSet(c)
    \/ \E c \in TrackCalls : StorageSetFails(c)
    \/ Elapse

SpecHistory == InitHistory /\ [][NextHistory]_vars

(***************************************************************************)
(* Claims                                                                  *)
(***************************************************************************)
InFlight(r) == req[r].pc \in {"fetch", "rates"}

\* the identity key of request r, which has read its preference: the key of
\* its product data with that currency
KeyOf(r) ==
    generateCacheKey(RequestData(req[r].productData, req[r].targetCurrency))

\* the tables getExchangeRates can resolve to
RateTables == {FALLBACK_RATES} \cup LiveTables

\* a finished request stays finished
DoneIsFinal == \A r \in Reqs : req[r].pc = "done" => req'[r] = req[r]

\* C1: a comparePrice request whose key has a cache entry younger than five
\* minutes is answered at once with success, exactly the stored data and
\* cached = true, and never calls the comparison service.
C1_FreshEntryServed ==
    [][/\ \A r \in Reqs :
            ( /\ req[r].pc = "pref" /\ req'[r].pc # "pref"
              /\ KeyOf(r) \in DOMAIN cache
              /\ now - cache[KeyOf(r)].timestamp < CACHE_DURATION )
            => /\ lastResponse' =
                    <<[id |-> r, response |-> Success(cache[KeyOf(r)].data, TRUE)]>>
               /\ req'[r].pc = "done"
               /\ req'[r].apiCalls = 0
               /\ req'[r].responses = 1
       /\ DoneIsFinal]_vars

C1_Witness ==
    /\ lastResponse # <<>>
    /\ lastResponse[1].response.success
    /\ lastResponse[1].response.cached
    /\ req[lastResponse[1].id].apiCalls = 0

\* C2: a request whose key has an entry aged five minutes or more is a miss
\* although the entry is still in the map: the service is called, the entry
\* stays where it is, and the answer the request finally gets is an error or a
\* freshly converted service body tagged cached = false.
C2_LazyExpiry ==
    [][/\ \A r \in Reqs :
            ( /\ req[r].pc = "pref" /\ req'[r].pc # "pref"
              /\ KeyOf(r) \in DOMAIN cache
              /\ now - cache[KeyOf(r)].timestamp >= CACHE_DURATION )
            => /\ req'[r].pc = "fetch"
               /\ req'[r].apiCalls = 1
               /\ req'[r].cached = <<cache[KeyOf(r)]>>
               /\ lastResponse' = lastResponse
               /\ cache' = cache
       /\ \A r \in Reqs :
            (InFlight(r) /\ req[r].cached # <<>> /\ req'[r].pc = "done")
            => /\ lastResponse'[1].id = r
               /\ ~lastResponse'[1].response.cached
               /\ lastResponse'[1].response.success =>
                    \E d \in ApiResults, t \in RateTables :
                        lastResponse'[1].response.data =
                            <<applyUserCurrencyConversion(d, req[r].targetCurrency, t)>>]_vars

C2_Witness ==
    \E r \in Reqs :
        /\ req[r].pc = "fetch"
        /\ req[r].cached # <<>>
        /\ req[r].cacheKey \in DOMAIN cache
        /\ cache[req[r].cacheKey] = req[r].cached[1]
        /\ now - req[r].cached[1].timestamp = CACHE_DURATION

\* C3 as claimed: once a clearCache has been handled, every key cached before
\* it is a miss on its next lookup, whatever requests were in flight.
C3_ClearedKeysMiss ==
    \A k \in clearedKeys :
        ~(k \in DOMAIN cache /\ now - cache[k].timestamp < CACHE_DURATION)

\* C3 as amended: clearCache empties the map, and a key cached before it is a
\* miss on its next lookup unless a request has stored under it since.
C3_ClearedKeysMissUnlessRefilled ==
    \A k \in clearedKeys \ refilled : k \notin DOMAIN cache

C3_Witness ==
    /\ refilled # {}
    /\ clearedKeys \ refilled # {}

\* C4: a run of the sweep happens no earlier than its 30-minute due time,
\* deletes every entry older than five minutes and leaves every other entry
\* as it was.
C4_SweepDeletesExpiredOnly ==
    [][nextSweep' # nextSweep =>
        /\ now >= nextSweep
        /\ nextSweep' = nextSweep + 30 * 60 * 1000
        /\ DOMAIN cache' =
              {k \in DOMAIN cache : ~(now - cache[k].timestamp > 5 * 60 * 1000)}
        /\ \A k \in DOMAIN cache' : cache'[k] = cache[k]]_vars

C4_Witness ==
    /\ cleared > 0
    /\ now = nextSweep - SWEEP_INTERVAL
    /\ \E k \in DOMAIN cache : cache[k].timestamp = now - CACHE_DURATION

\* C5 as claimed: a miss whose service call succeeds answers, for every target
\* currency, with every candidate and the best deal tagged with the target
\* currency and a price_converted computed from price_usd; the answer is
\* stored under the request's key with the current time and tagged
\* cached = false.
Converted(price, cur) ==
    /\ price.target_currency = cur
    /\ price.price_converted # NoPrice
    /\ \E t \in RateTables : price.price_converted = price.price_usd * RateOrOne(t, cur)

C5_ConvertedForEveryCurrency ==
    [][\A r \in Reqs :
        (InFlight(r) /\ req'[r].pc = "done" /\ lastResponse'[1].response.success)
        => LET cur == req[r].targetCurrency
               response == lastResponse'[1].response
               data == response.data[1]
           IN  /\ lastResponse'[1].id = r
               /\ ~response.cached
               /\ \A i \in 1..Len(data.all_prices) : Converted(data.all_prices[i], cur)
               /\ data.best_deal # <<>> => Converted(data.best_deal[1], cur)
               /\ cache'[req[r].cacheKey] = [data |-> data, timestamp |-> now]]_vars

\* C6: when the service call fails the request is answered {success: false,
\* error}, has called the service once, and the cache is what it was.
C6_FailureLeavesCache ==
    [][\A r \in Reqs, e \in ApiFailures :
        FetchFails(r, e)
        => /\ lastResponse' = <<[id |-> r, response |-> Failure(e)]>>
           /\ req'[r].pc = "done"
           /\ req'[r].apiCalls = 1
           /\ req'[r].responses = 1
           /\ cache' = cache]_vars

C6_Witness ==
    /\ lastResponse # <<>>
    /\ ~lastResponse[1].response.success
    /\ lastResponse[1].response.error = "status"
    /\ DOMAIN cache # {}
    /\ \E r \in Reqs : req[r].pc = "fetch"

\* C7: a request never has two responses, a finished request has exactly one,
\* and every request in flight is eventually finished.
C7_ExactlyOneResponse ==
    /\ [](\A r \in Reqs :
            /\ req[r].responses <= 1
            /\ req[r].pc = "done" <=> req[r].responses = 1)
    /\ \A r \in Reqs :
          (req[r].pc = "pref" \/ InFlight(r)) ~> (req[r].pc = "done" /\ req[r].responses = 1)

C7_Witness ==
    /\ \E r \in Reqs : req[r].pc = "done" /\ req[r].apiCalls = 0
    /\ \E r \in Reqs : req[r].pc = "done" /\ req[r].apiCalls = 1
    /\ lastResponse # <<>> /\ ~lastResponse[1].response.success

\* C8: requests in flight for one key have each made their own call to the
\* comparison service: N of them, N calls.
RECURSIVE Calls(_)
Calls(S) ==
    IF S = {} THEN 0
    ELSE LET r == CHOOSE x \in S : TRUE IN req[r].apiCalls + Calls(S \ {r})

SameKey(r) == {q \in Reqs : InFlight(q) /\ req[q].cacheKey = req[r].cacheKey}

C8_NoDeduplication ==
    \A r \in Reqs : InFlight(r) => Calls(SameKey(r)) = Cardinality(SameKey(r))

C8_Witness ==
    \E r \in Reqs :
        /\ InFlight(r)
        /\ Cardinality(SameKey(r)) >= 2
        /\ \A q \in SameKey(r) : req[q].cached = <<>>
        /\ req[r].cacheKey \notin DOMAIN cache

\* C9: a request in flight stays in flight, with its key, until its own
\* response; when that response is a success the converted result is in the
\* cache under the request's key with the completion time, whatever was there.
C9_InFlightAlwaysStores ==
    [][\A r \in Reqs :
        InFlight(r)
        => /\ req'[r].pc \in {"fetch", "rates", "done"}
           /\ req'[r].pc # "done" =>
                /\ req'[r].cacheKey = req[r].cacheKey
                /\ req'[r].targetCurrency = req[r].targetCurrency
                /\ req'[r].productData = req[r].productData
           /\ req'[r].pc = "done" =>
                /\ lastResponse' # <<>>
                /\ lastResponse'[1].id = r
                /\ lastResponse'[1].response.success =>
                     /\ req[r].cacheKey \in DOMAIN cache'
                     /\ cache'[req[r].cacheKey] =
                            [data |-> lastResponse'[1].response.data[1],
                             timestamp |-> now]]_vars

C9_Witness ==
    /\ lastResponse # <<>>
    /\ lastResponse[1].response.success
    /\ ~lastResponse[1].response.cached
    /\ \E q \in Reqs :
        /\ req[q].pc = "fetch"
        /\ req[q].cached # <<>>
        /\ req[q].cacheKey \in DOMAIN cache
        /\ cache[req[q].cacheKey].timestamp > req[q].cached[1].timestamp
        /\ cache[req[q].cacheKey].data = lastResponse[1].response.data[1]

\* C10 as claimed: two requests whose titles differ only by leading, trailing
\* or repeated whitespace or by letter case, with the same identifiers and
\* target currency, get the same key.
NormalizeTitle(s) == toLowerCase(TrimRight(TrimLeft(CollapseSpaces(s))))

C10_KeyIgnoresWhitespaceAndCase ==
    ( /\ result # <<>>
      /\ args[1].identifiers = args[2].identifiers
      /\ args[1].target_currency = args[2].target_currency
      /\ NormalizeTitle(args[1].title) = NormalizeTitle(args[2].title) )
    => result[1] = result[2]

\* C11: two requests resolved under different target currencies have
\* different keys, whatever their titles and identifiers, and a request
\* answered from the cache gets a result stored for its own currency: every
\* price is tagged with that currency, or untagged when the currency is USD.
PairKey1 == generateCacheKey(RequestData(args[1], args[2]))

PairKey2 == generateCacheKey(RequestData(args[3], args[4]))

ForCurrency(data, cur) ==
    \A i \in 1..Len(data.all_prices) :
        data.all_prices[i].target_currency = (IF cur = USD THEN <<>> ELSE cur)

C11_CurrencyInKey ==
    /\ args[2] # args[4] => PairKey1 # PairKey2
    /\ \A k \in DOMAIN cache :
          \/ k = PairKey1 /\ ForCurrency(cache[k].data, args[2])
          \/ k = PairKey2 /\ ForCurrency(cache[k].data, args[4])
    /\ (lastResponse # <<>> /\ lastResponse[1].response.cached)
          => /\ ForCurrency(lastResponse[1].response.data[1],
                            IF lastResponse[1].id = 1 THEN args[2] ELSE args[4])
             /\ args[2] = args[4]

C11_Witness ==
    /\ args[1] = args[3]
    /\ args[2] # args[4]
    /\ PairKey1 \in DOMAIN cache
    /\ Len(cache[PairKey1].data.all_prices) > 0
    /\ req[2].pc = "fetch"
    /\ req[2].cacheKey = PairKey2
    /\ req[2].cached = <<>>

\* C12: a request that needs the rates starts a rate fetch only when there
\* is no snapshot or the snapshot is an hour old or more; otherwise it is
\* converted with the snapshot's table and the snapshot stays as it is; the
\* snapshot changes only by a successful fetch, which replaces it with the
\* fetched table stamped with the current time.
SnapshotAge == now - cachedRates[1].timestamp

C12_SnapshotRefresh ==
    [][/\ \A r \in Reqs :
            (req[r].pc = "fetch" /\ req'[r].pc = "rates")
            => (cachedRates = <<>> \/ SnapshotAge >= 60 * 60 * 1000)
       /\ \A r \in Reqs :
            (req[r].pc = "fetch" /\ req'[r].pc = "done" /\ req[r].targetCurrency # USD)
            => /\ cachedRates # <<>>
               /\ SnapshotAge < 60 * 60 * 1000
               /\ cachedRates' = cachedRates
               /\ \E d \in ApiResults :
                     lastResponse'[1].response.data =
                         <<applyUserCurrencyConversion(d, req[r].targetCurrency,
                                                       cachedRates[1].rates)>>
       /\ cachedRates' # cachedRates
            => \E r \in Reqs, t \in RefreshTables :
                 /\ req[r].pc = "rates" /\ req'[r].pc = "done"
                 /\ cachedRates' = <<[rates |-> t, timestamp |-> now]>>
                 /\ lastResponse'[1].response.data =
                        <<applyUserCurrencyConversion(req[r].data[1],
                                                      req[r].targetCurrency, t)>>]_vars

C12_Witness ==
    \E r \in Reqs :
        /\ req[r].pc = "rates"
        /\ req[r].cached # <<>>
        /\ cachedRates # <<>>
        /\ cachedRates[1].timestamp = req[r].cached[1].timestamp
        /\ SnapshotAge = RATES_CACHE_DURATION

\* C13: a failed rate fetch is absorbed: the request that waited for it is
\* answered with success, its prices converted with the static fallback
\* table, the result is stored and the snapshot is left as it was; the
\* fallback table has a positive rate for exactly the eight currencies.
C13_RateFailureAbsorbed ==
    [][/\ DOMAIN FALLBACK_RATES = {USD, EUR, GBP, NGN, INR, CAD, AUD, JPY}
       /\ \A c \in DOMAIN FALLBACK_RATES : FALLBACK_RATES[c] > 0
       /\ \A r \in Reqs :
            RatesFail(r)
            => LET converted == applyUserCurrencyConversion(
                                    req[r].data[1], req[r].targetCurrency, FALLBACK_RATES)
               IN  /\ req'[r].pc = "done"
                   /\ req'[r].responses = 1
                   /\ lastResponse' = <<[id |-> r, response |-> Success(converted, FALSE)]>>
                   /\ cache'[req[r].cacheKey] = [data |-> converted, timestamp |-> now]
                   /\ cachedRates' = cachedRates]_vars

C13_Witness ==
    /\ lastResponse # <<>>
    /\ lastResponse[1].response.success
    /\ ~lastResponse[1].response.cached
    /\ Len(lastResponse[1].response.data[1].all_prices) > 0
    /\ \A i \in 1..Len(lastResponse[1].response.data[1].all_prices) :
          LET price == lastResponse[1].response.data[1].all_prices[i]
          IN  price.price_converted = price.price_usd * 92
    /\ cachedRates # <<>>
    /\ SnapshotAge >= RATES_CACHE_DURATION

\* C14: a convertCurrency or convertCurrencySync call between identical
\* currencies finishes at once with the amount it was given, whatever the
\* table, and neither fetches the rates nor changes the snapshot.
C14_IdentityConversion ==
    ( /\ args.from = args.to
      /\ result.pc # "idle"
      /\ result.fn \in {"convertCurrency", "convertCurrencySync"} )
    => /\ result.pc = "done"
       /\ result.value = args.amount
       /\ result.fetches = 0
       /\ cachedRates = args.snapshot

C14_Witness ==
    /\ args.from = NGN
    /\ args.to = NGN
    /\ args.amount = <<1, 10>>
    /\ args.snapshot = <<>>
    /\ result.pc = "done"
    /\ result.fn = "convertCurrency"

\* C15 as claimed: for any hostname, a price text containing "C$" or "CAD"
\* (and no Australian token) is detected as CAD, and one containing "A$" or
\* "AUD" (and no Canadian token) as AUD.
HasCanadian(text) == Includes(text, <<"C","$">>) \/ Includes(text, CAD)

HasAustralian(text) == Includes(text, <<"A","$">>) \/ Includes(text, AUD)

C15_DollarTokens ==
    result # <<>>
    => /\ (HasCanadian(args.text) /\ ~HasAustralian(args.text)) => result[1] = CAD
       /\ (HasAustralian(args.text) /\ ~HasCanadian(args.text)) => result[1] = AUD

\* C16: the detected site is the first of amazon, ebay, jumia, konga whose
\* product-page test holds for the location, and "unknown" when none holds;
\* on "unknown" extractProductFromPage returns null and invokes no extractor,
\* otherwise it invokes the detected site's extractor and no other.
OnHost(host) == Includes(args.location, host)

OnPath(part) == Includes(args.pathname, part)

PageTest(site) ==
    CASE site = "amazon" ->
            OnHost(HostAmazon) /\ (OnPath(<<"/","d","p","/">>)
                                    \/ OnPath(<<"/","g","p","/","p","r","o","d","u","c","t","/">>))
      [] site = "ebay" ->
            OnHost(HostEbay) /\ (OnPath(<<"/","i","t","m","/">>) \/ OnPath(<<"/","p","/">>))
      [] site = "jumia" -> OnHost(HostJumia) /\ OnPath(<<".","h","t","m","l">>)
      [] site = "konga" ->
            OnHost(HostKonga) /\ (OnPath(<<"/","p","r","o","d","u","c","t","/">>)
                                   \/ OnPath(<<"/","p","/">>))

SiteOrder == <<"amazon", "ebay", "jumia", "konga">>

C16_FirstMatchingSite ==
    result # <<>>
    => /\ \/ /\ result[1].site = "unknown"
             /\ \A i \in 1..4 : ~PageTest(SiteOrder[i])
             /\ result[1].invoked = <<>>
             /\ result[1].value = <<>>
          \/ \E i \in 1..4 :
                /\ result[1].site = SiteOrder[i]
                /\ PageTest(SiteOrder[i])
                /\ \A j \in 1..(i - 1) : ~PageTest(SiteOrder[j])
                /\ result[1].invoked = <<SiteOrder[i]>>
       /\ ~result[1].threw

C16_Witness ==
    /\ result # <<>>
    /\ result[1].site = "ebay"
    /\ PageTest("konga")
    /\ result[1].value # <<>>

\* C17: an extractor never throws to its caller; it returns null when no
\* title is found and when a step of the extraction throws; a result that is
\* not null has a title that is not empty.
FirstTitleText == getTextContent(querySelector(TitleSelectors(args.site)))

C17_NoFaultPastExtractor ==
    result # <<>>
    => /\ ~result[1].threw
       /\ ~Truthy(FirstTitleText) => result[1].value = <<>>
       /\ args.fault # "none" => result[1].value = <<>>
       /\ result[1].value # <<>>
            => /\ result[1].value[1].title # <<>>
               /\ result[1].value[1].title[1] # " "

C17_Witness ==
    /\ result # <<>>
    /\ args.fault = "price"
    /\ Truthy(FirstTitleText)
    /\ result[1].value = <<>>
    /\ ~result[1].threw

\* C18 as claimed: the title comes from the first selector of the list whose
\* element exists and has text after normalisation; the extraction fails for
\* a missing title only if no selector of the list has such an element.
HasText(selector) == Truthy(getTextContent(documentQuerySelector(selector)))

C18_FirstNonEmptyTitle ==
    (result # <<>> /\ args.fault = "none")
    => LET selectors == TitleSelectors(args.site)
       IN  /\ result[1].value = <<>> <=> \A i \in 1..Len(selectors) : ~HasText(selectors[i])
           /\ result[1].value # <<>>
                => \E i \in 1..Len(selectors) :
                     /\ HasText(selectors[i])
                     /\ \A j \in 1..(i - 1) : ~HasText(selectors[j])
                     /\ LET raw == getTextContent(documentQuerySelector(selectors[i]))
                            short == shortenTitle(raw, 7)
                        IN  result[1].value[1].title =
                                (IF Truthy(short) THEN short ELSE raw)

\* C19: every comparison returned to the caller, from the cache or from the
\* service and in every target currency, has as best_deal the entry of
\* all_prices with the least price_usd, or null when all_prices is empty; it
\* has the length, order and price_usd values of a response of the service.
IsCheapest(best, all) ==
    \E i \in 1..Len(all) :
        /\ all[i] = best
        /\ \A j \in 1..Len(all) : all[i].price_usd <= all[j].price_usd

SameOffers(data, api) ==
    /\ Len(data.all_prices) = Len(api.all_prices)
    /\ \A i \in 1..Len(api.all_prices) :
          /\ data.all_prices[i].site = api.all_prices[i].site
          /\ data.all_prices[i].price_usd = api.all_prices[i].price_usd
    /\ data.best_deal = <<>> <=> api.best_deal = <<>>

C19_BestDealIsCheapest ==
    (lastResponse # <<>> /\ lastResponse[1].response.success)
    => LET data == lastResponse[1].response.data[1]
       IN  /\ data.all_prices = <<>> => data.best_deal = <<>>
           /\ data.all_prices # <<>>
                => /\ data.best_deal # <<>>
                   /\ IsCheapest(data.best_deal[1], data.all_prices)
           /\ \E api \in ApiResults : SameOffers(data, api)

C19_Witness ==
    /\ lastResponse # <<>>
    /\ lastResponse[1].response.success
    /\ lastResponse[1].response.cached
    /\ lastResponse[1].response.data[1].best_deal # <<>>
    /\ lastResponse[1].response.data[1].best_deal[1].site = "jumia"
    /\ lastResponse[1].response.data[1].best_deal[1].target_currency = EUR
    /\ lastResponse[1].response.data[1].best_deal[1].price_converted # NoPrice

\* C20 as claimed: parsePrice gives undefined for missing, empty and
\* non-numeric text, and for a text made of a currency symbol, digits,
\* thousands commas and a decimal point it gives the number written, symbol
\* and commas removed: "$999.99" gives 999.99 and the naira text "450,000.00"
\* gives 450000.
NonNumeric(text) == \A i \in 1..Len(text) : ~IsDigit(text[i])

Unsigned(text) ==
    IF text # <<>> /\ text[1] \in CurrencySigns THEN Tail(text) ELSE text

DotAt(text) ==
    IF \E i \in 1..Len(text) : text[i] = "."
    THEN CHOOSE i \in 1..Len(text) : text[i] = "." /\ \A j \in 1..(i - 1) : text[j] # "."
    ELSE Len(text) + 1

Whole(text) == SubSeq(Unsigned(text), 1, DotAt(Unsigned(text)) - 1)

Fraction(text) ==
    SubSeq(Unsigned(text), DotAt(Unsigned(text)) + 1, Len(Unsigned(text)))

WellFormedPrice(text) ==
    /\ Whole(text) # <<>>
    /\ IsDigit(Whole(text)[1])
    /\ \A i \in 1..Len(Whole(text)) : IsDigit(Whole(text)[i]) \/ Whole(text)[i] = ","
    /\ \A i \in 1..Len(Fraction(text)) : IsDigit(Fraction(text)[i])

\* trailing zeros of a fraction dropped
RECURSIVE StripZeros(_)
StripZeros(ds) ==
    IF ds # <<>> /\ ds[Len(ds)] = "0" THEN StripZeros(SubSeq(ds, 1, Len(ds) - 1)) ELSE ds

\* the number written by the digits of the whole part and of the fraction
WrittenNumber(text) ==
    LET f == StripZeros(Fraction(text))
    IN  [m |-> DigitsValue(SelectSeq(Whole(text), IsDigit) \o f), k |-> Len(f)]

C20_ParsePrice ==
    result # <<>>
    => /\ NonNumeric(args.text) => result[1].value = <<>>
       /\ WellFormedPrice(args.text) => result[1].value = <<WrittenNumber(args.text)>>
       /\ args.text = <<"$","9","9","9",".","9","9">>
            => result[1].value = <<[m |-> 99999, k |-> 2]>>
       /\ args.text = <<NairaSign,"4","5","0",",","0","0","0",".","0","0">>
            => result[1].value = <<[m |-> 450000, k |-> 0]>>

\* C21 as claimed: for a price text without a currency symbol or token, the
\* hostname jumia.com.ng gives NGN, and so does "konga.com", the hostname the
\* Konga extractor passes.
NoCurrencyMark(text) ==
    /\ \A i \in 1..Len(text) : text[i] \notin CurrencySigns
    /\ ~HasCanadian(text)
    /\ ~HasAustralian(text)

C21_NigerianDomains ==
    (result # <<>> /\ NoCurrencyMark(args.text))
    => /\ args.hostname = JumiaNigeria => result[1] = NGN
       /\ args.hostname = CurrencyHost("konga") => result[1] = NGN

\* C22 as claimed: an item page on ebay.co.uk is detected as ebay, a /dp/ page
\* on amazon.co.uk as amazon, and a .html page on jumia.co.ke as jumia.
C22_RegionalDomains ==
    result # <<>>
    => /\ (args.location = EbayUk /\ OnPath(<<"/","i","t","m","/">>))
            => result[1].site = "ebay"
       /\ (args.location = AmazonUk /\ OnPath(<<"/","d","p","/">>))
            => result[1].site = "amazon"
       /\ (args.location = JumiaKenya /\ OnPath(<<".","h","t","m","l">>))
            => result[1].site = "jumia"

\* C23 as claimed: for a list item without cells whose text is a label, a
\* first ":" or "-", and a value, and whose label matches the key pattern,
\* extractFromTable returns all the text after that first delimiter, trimmed
\* and otherwise unchanged.
FirstDelimiter(text) ==
    CHOOSE i \in 1..Len(text) :
        text[i] \in {":", "-"} /\ \A h \in 1..(i - 1) : text[h] \notin {":", "-"}

LabelledItem ==
    /\ Len(args.rows) = 1
    /\ args.rows[1].tagName = "LI"
    /\ args.rows[1].keyCell = <<>>
    /\ args.rows[1].valueCell = <<>>
    /\ \E i \in 1..Len(args.rows[1].textContent) : args.rows[1].textContent[i] \in {":", "-"}
    /\ keyPatternTest(toLowerCase(Trim(
            SubSeq(args.rows[1].textContent, 1, FirstDelimiter(args.rows[1].textContent) - 1))))

C23_FirstDelimiterOnly ==
    (result # <<>> /\ LabelledItem)
    => LET text == args.rows[1].textContent
       IN  result[1].value = <<Trim(SubSeq(text, FirstDelimiter(text) + 1, Len(text)))>>

\* C24 as claimed: on one site two different URLs have different ids, so a
\* trackProduct call that returns gives back the entry of its own URL.
C24_IdPerUrl ==
    \A c \in TrackCalls :
        (calls[c].op = "trackProduct" /\ calls[c].pc = "done")
        => /\ calls[c].returned[1].url = calls[c].url
           /\ \A i \in 1..Len(calls[c].products) :
                 calls[c].products[i].url # calls[c].url
                 => calls[c].products[i].id # calls[c].returned[1].id

\* the stored list and every copy about to be written hold between 1 and 30
\* points per product
IsSuffix(short, long) ==
    /\ Len(short) <= Len(long)
    /\ short = SubSeq(long, Len(long) - Len(short) + 1, Len(long))

Bounded(products) ==
    \A i \in 1..Len(products) :
        /\ Len(products[i].price_history) <= 30
        /\ Len(products[i].price_history) >= 1

HistoryBounded ==
    /\ Bounded(trackedProducts)
    /\ \A c \in TrackCalls : calls[c].pc = "set" => Bounded(calls[c].products)

\* an updateProductPrice call that has read the list and found its product
\* changes that product in its copy as claimed, and the write of any call
\* stores the copy of that call
UpdateEffect ==
    \A c \in TrackCalls :
        /\ ( /\ calls[c].op = "updateProductPrice"
             /\ calls[c].pc = "get"
             /\ calls'[c].pc = "set" )
           => LET found == FindIndex(trackedProducts, calls[c].productId)
                  old == trackedProducts[found]
                  new == calls'[c].products[found]
                  newPrice == calls[c].price
                  appended == Append(old.price_history, PricePoint(newPrice, now))
              IN  /\ found # 0
                  /\ calls'[c].returned = <<new>>
                  /\ \A i \in 1..Len(trackedProducts) :
                        i # found => calls'[c].products[i] = trackedProducts[i]
                  /\ new.current_price = newPrice
                  /\ new.last_checked = now
                  /\ newPrice = old.current_price
                        => new.price_history = old.price_history
                  /\ newPrice # old.current_price
                        => /\ IsSuffix(new.price_history, appended)
                           /\ Len(new.price_history) =
                                  IF Len(appended) > 30 THEN 30 ELSE Len(appended)
        /\ (calls[c].pc = "set" /\ calls'[c].pc = "done")
           => trackedProducts' = calls[c].products

\* C25: a tracked product's price_history never holds more than 30 points;
\* an update with the price the call read as current leaves the history as
\* it is, an update with another price appends one point and keeps the
\* latest 30; every update sets current_price and last_checked.
C25_HistoryCapped == []HistoryBounded /\ [][UpdateEffect]_vars

C25_Witness ==
    /\ args.seed = HISTORY_LIMIT
    /\ trackedProducts # <<>>
    /\ Len(trackedProducts[1].price_history) = 30
    /\ trackedProducts[1].price_history[1] = PricePoint(SeedPrice(3), 2)
    /\ trackedProducts[1].current_price = 3
    /\ trackedProducts[1].last_checked > trackedProducts[1].price_history[30].timestamp

\* C26 as claimed: right after a run of the sweep every entry left in the
\* cache is one a lookup at that instant treats as a hit, and the sweep has
\* removed no entry a lookup treats as a hit.
Age(entry) == now - entry.timestamp

C26_SweepAgreesWithLookup ==
    [][nextSweep' # nextSweep =>
        /\ \A k \in DOMAIN cache' : Age(cache'[k]) < CACHE_DURATION
        /\ \A k \in DOMAIN cache : Age(cache[k]) < CACHE_DURATION => k \in DOMAIN cache']_vars

\* C26 as amended: the sweep removes no entry a lookup treats as a hit and
\* removes every entry older than the TTL; an entry whose age is exactly the
\* TTL stays in the cache although a lookup treats it as a miss.
C26_SweepAgreesExceptAtTTL ==
    [][nextSweep' # nextSweep =>
        \A k \in DOMAIN cache :
            /\ Age(cache[k]) < CACHE_DURATION => (k \in DOMAIN cache' /\ CacheHit(k))
            /\ Age(cache[k]) > CACHE_DURATION => (k \notin DOMAIN cache' /\ ~CacheHit(k))
            /\ Age(cache[k]) = CACHE_DURATION => (k \in DOMAIN cache' /\ ~CacheHit(k))]_vars

C26_Witness ==
    /\ now = SWEEP_INTERVAL
    /\ nextSweep = 2 * SWEEP_INTERVAL
    /\ \E k \in DOMAIN cache : Age(cache[k]) = CACHE_DURATION /\ ~CacheHit(k)

\* C27 as claimed: under one target currency, two requests whose titles
\* differ by more than letter case, or whose asin, upc, ean or ebay_item_id
\* differ, never get the same key.
C27_KeyCollisionFree ==
    ( /\ result # <<>>
      /\ args[1].target_currency = args[2].target_currency
      /\ \/ toLowerCase(args[1].title) # toLowerCase(args[2].title)
         \/ args[1].identifiers # args[2].identifiers )
    => result[1] # result[2]

\* C28: a request resolves its target currency once: from the read of the
\* preference to the answer its currency and product data stay as they were,
\* and its key as computed when the handler resumed, whatever happens to the
\* stored preference in between; the key is the key of the request data
\* carrying that currency, and the result it stores and returns is converted
\* to and tagged with that currency (left as the service sent it for USD).  So
\* every cache entry holds prices for the currency its key ends with.
PricesFor(data, cur) ==
    \A i \in 1..Len(data.all_prices) :
        LET price == data.all_prices[i]
        IN  IF cur = USD
            THEN price.target_currency = <<>> /\ price.price_converted = NoPrice
            ELSE /\ price.target_currency = cur
                 /\ \E t \in RateTables :
                       price.price_converted = price.price_usd * RateOrOne(t, cur)

KeyNames(key, cur) ==
    /\ Len(key) >= Len(cur)
    /\ SubSeq(key, Len(key) - Len(cur) + 1, Len(key)) = toLowerCase(cur)

OneCurrencyPerRequest ==
    /\ \A r \in Reqs :
          InFlight(r)
          => req[r].cacheKey =
                generateCacheKey(RequestData(req[r].productData, req[r].targetCurrency))
    /\ \A k \in DOMAIN cache :
          \E cur \in PrefChoices : KeyNames(k, cur) /\ PricesFor(cache[k].data, cur)

CurrencyKept ==
    \A r \in Reqs :
        /\ (req[r].pc = "pref")
              => /\ (req'[r].pc \in {"pref", "fetch"})
                      => /\ req'[r].targetCurrency = req[r].targetCurrency
                         /\ req'[r].productData = req[r].productData
                 /\ (req'[r].pc = "fetch") => (req'[r].cacheKey = KeyOf(r))
                 /\ (req'[r].pc = "done")
                      => PricesFor(lastResponse'[1].response.data[1],
                                   req[r].targetCurrency)
        /\ InFlight(r)
              => /\ (req'[r].pc \in {"fetch", "rates"})
                      => /\ req'[r].targetCurrency = req[r].targetCurrency
                         /\ req'[r].cacheKey = req[r].cacheKey
                         /\ req'[r].productData = req[r].productData
                 /\ (req'[r].pc = "done" /\ lastResponse'[1].response.success)
                      => /\ PricesFor(lastResponse'[1].response.data[1],
                                      req[r].targetCurrency)
                         /\ cache'[req[r].cacheKey].data
                               = lastResponse'[1].response.data[1]

C28_CurrencyResolvedOnce == []OneCurrencyPerRequest /\ [][CurrencyKept]_vars

C28_Witness ==
    /\ pref = EUR
    /\ lastResponse # <<>>
    /\ lastResponse[1].response.success
    /\ ~lastResponse[1].response.cached
    /\ lastResponse[1].response.data[1].all_prices # <<>>
    /\ PricesFor(lastResponse[1].response.data[1], USD)
    /\ \E k \in DOMAIN cache :
          /\ KeyNames(k, USD)
          /\ cache[k].data = lastResponse[1].response.data[1]
          /\ cache[k].timestamp = now
    /\ pendingSend = 0
    /\ pendingClear = 0
    /\ clearedKeys = {}
    /\ now = 0

\* C29 as claimed: a product in the stored list stays in it until
\* untrackProduct is called with its id, however trackProduct, untrackProduct
\* and updateProductPrice calls interleave, and the stored list never holds
\* two products with the same id.
StoredIds == {trackedProducts[i].id : i \in 1..Len(trackedProducts)}

UntrackCalled(id) ==
    \E c \in TrackCalls : calls[c].op = "untrackProduct" /\ calls[c].productId = id

NoDuplicateIds ==
    \A i, j \in 1..Len(trackedProducts) :
        trackedProducts[i].id = trackedProducts[j].id => i = j

TrackedStays ==
    \A id \in StoredIds :
        ~UntrackCalled(id) => \E i \in 1..Len(trackedProducts') : trackedProducts'[i].id = id

C29_NoTrackedProductLost == []NoDuplicateIds /\ [][TrackedStays]_vars

\* the snapshot, when there is one, holds a table the service answered with
SnapshotFromService ==
    cachedRates # <<>> => /\ cachedRates[1].rates \in RefreshTables
                          /\ cachedRates[1].rates # FALLBACK_RATES

\* a failed fetch leaves the snapshot alone, and a request that needs rates
\* while the snapshot is absent or stale goes on to the network fetch
FailureRetried ==
    \A r \in Reqs :
        /\ RatesFail(r) => cachedRates' = cachedRates
        /\ (/\ req[r].pc = "fetch"
            /\ req'[r].pc # "fetch"
            /\ req[r].targetCurrency # USD
            /\ ~RatesFresh)
           => req'[r].pc = "rates"

\* C30: a failed exchange-rate fetch leaves the rate snapshot unchanged: the
\* fallback table is returned for that call only and is never stored as the
\* snapshot, so the next request that needs rates with an absent or stale
\* snapshot attempts the network fetch again.
C30_FallbackNotStored == []SnapshotFromService /\ [][FailureRetried]_vars

C30_Witness ==
    /\ cachedRates = <<>>
    /\ lastResponse # <<>>
    /\ lastResponse[1].response.success
    /\ ~lastResponse[1].response.cached
    /\ Len(lastResponse[1].response.data[1].all_prices) > 0
    /\ \A i \in 1..Len(lastResponse[1].response.data[1].all_prices) :
          LET price == lastResponse[1].response.data[1].all_prices[i]
          IN  price.price_converted = price.price_usd * FALLBACK_RATES[EUR]
    /\ \E r \in Reqs : /\ req[r].pc = "rates"
                       /\ r # lastResponse[1].id

====
